---- MODULE Spec2Model ----
(***************************************************************************)
(* Clip suggestion engine of the sermon pipeline                           *)
(* (apps/worker/src/tasks.py, apps/worker/src/services/deepseek_client.py, *)
(* apps/api/src/routers/sermons.py).                                       *)
(*                                                                         *)
(* Conventions.                                                            *)
(*  - Segment and candidate indices are 0-based as in the source; the      *)
(*    i-th segment of a transcript S is S[i + 1].                          *)
(*  - A segment's text is represented by what the code reads of it: its    *)
(*    word count, whether it starts/ends a sentence, and the hook score of *)
(*    its head in hundredths.                                              *)
(*  - Heuristic scores are exact rationals: heuristic_score is kept in     *)
(*    units of 1/SCORE_UNIT; a persisted score is the pair                 *)
(*    (score, score_den) meaning score / score_den.                        *)
(*  - Embeddings are 2-dimensional integer vectors; NoEmb is "no           *)
(*    embedding".  Cosine comparisons are done exactly on squares.         *)
(***************************************************************************)
EXTENDS Integers, Sequences, FiniteSets, TLC

VARIABLES
    fnSegs,     \* pipeline view: the transcript handed to the pure components
    fnCands,    \* pipeline view: the current candidate list
    fnPre,      \* pipeline view: the candidate list before the trim applier ran
    fnStage,    \* pipeline view: which component ran last
    fnArgs,     \* pipeline view: the arguments of the last builder call
    fnDelay,    \* what _calculate_retry_delay returned
    sermon,     \* the row of the sermon the tasks work on (committed state)
    transcript, \* its transcript_segments / transcript_embeddings rows (committed)
    clips,      \* the clips table (committed state), ordered by id
    task,       \* per task request: position in suggest_clips and its local state
    clock,      \* the time datetime.utcnow() returns next
    faults      \* database errors (OperationalError) raised so far

fnVars == <<fnSegs, fnCands, fnPre, fnStage, fnArgs, fnDelay>>
sysVars == <<sermon, transcript, clips, task, clock, faults>>
vars == <<fnSegs, fnCands, fnPre, fnStage, fnArgs, fnDelay,
          sermon, transcript, clips, task, clock, faults>>

----------------------------------------------------------------------------
(* Program constants (tasks.py:46-107)                                     *)

MIN_CLIP_MS == 30000
MAX_CLIP_MS == 120000
MIN_SUGGESTIONS == 5
MAX_SUGGESTIONS == 15
LONG_GAP_MS == 1500
START_GAP_MS == 500
END_GAP_MS == 700
SEMANTIC_DEDUPE_MAX == 200
SEMANTIC_TYPE_MAX == 200
LLM_MAX_CANDIDATES == 15
\* LLM_TRIM_CONFIDENCE_MIN = 0.8, in hundredths
LLM_TRIM_CONFIDENCE_MIN == 80
\* HEURISTIC_SCORE_WEIGHT = 0.3 and LLM_SCORE_WEIGHT = 0.7, in tenths
HEURISTIC_SCORE_WEIGHT == 3
LLM_SCORE_WEIGHT == 7
\* one heuristic score point, in the integer unit scores are kept in
SCORE_UNIT == 30000
\* the length error_message is cut to
ERROR_MESSAGE_MAX == 1000

----------------------------------------------------------------------------
(* Bounds of the model                                                     *)

MaxSegs == 3
\* the API's calls that only draw a timestamp stop at this clock value
MaxClock == 5
\* batch_size of transcribe_sermon (100 in the code) as the model has it
batch_size == 2
\* how many utterances the recording of a sermon may hold
MaxUtterances == 3
\* the greatest retry count _calculate_retry_delay is called with
MaxRetryCount == 7
\* settings.celery_max_retries as configured in the model
celery_max_retries == 1

----------------------------------------------------------------------------
(* Small helpers                                                           *)

Max2(a, b) == IF a >= b THEN a ELSE b
Min2(a, b) == IF a <= b THEN a ELSE b
Abs(a) == IF a < 0 THEN -a ELSE a


Take(s, n) == SubSeq(s, 1, Min2(n, Len(s)))

RECURSIVE SumWords(_, _, _)
SumWords(segs, i, j) ==
    IF i > j THEN 0 ELSE segs[i + 1].words + SumWords(segs, i + 1, j)

NoEmb == <<>>

Dot(a, b) == a[1] * b[1] + a[2] * b[2]
Norm2(a) == Dot(a, a)

\* _cosine_similarity(a, b) < num/den, for 0 < num/den  (tasks.py:279-285)
CosineBelow(a, b, num, den) ==
    LET d == Dot(a, b) IN
    IF Norm2(a) * Norm2(b) = 0 THEN TRUE      \* denom <= 1e-8: similarity 0.0
    ELSE IF d <= 0 THEN TRUE
    ELSE d * d * den * den < num * num * Norm2(a) * Norm2(b)

\* the sort keys of suggest_clips: item["heuristic_score"] and item["score"]
\* (scores of one run share their denominator, so the numerator orders them)
KeyOf(c, key) == IF key = "score" THEN c.score ELSE c.heuristic_score

\* where the stable descending sort puts element i of s: after the elements
\* of greater key and after the earlier elements of equal key
SortedPos(s, i, key) ==
    1 + Cardinality({j \in 1..Len(s) :
                        \/ KeyOf(s[j], key) > KeyOf(s[i], key)
                        \/ (KeyOf(s[j], key) = KeyOf(s[i], key) /\ j < i)})

\* stable sort of a candidate list by descending key, as
\* list.sort(key=..., reverse=True) and sorted(..., reverse=True)
SortDescOf(s, key) ==
    [p \in 1..Len(s) |-> s[CHOOSE i \in 1..Len(s) : SortedPos(s, i, key) = p]]

SortDesc(candidates, key) ==
    CHOOSE r \in {SortDescOf(s, key) : s \in {candidates}} : TRUE

----------------------------------------------------------------------------
(* Heuristic scorer                                                        *)

\* _is_clean_start: prev_gap_ms is given as -1 for None
IsCleanStart(prev_gap_ms, starts_sentence) ==
    IF prev_gap_ms = -1 THEN TRUE
    ELSE IF prev_gap_ms >= START_GAP_MS THEN TRUE
    ELSE starts_sentence

\* _is_clean_end: next_gap_ms is given as -1 for None
IsCleanEnd(next_gap_ms, ends_sentence) ==
    IF ends_sentence THEN TRUE
    ELSE IF next_gap_ms = -1 THEN TRUE
    ELSE next_gap_ms >= END_GAP_MS

\* _score_candidate, in units of 1/3000: word_count/10 -> 300 per word,
\* 1.5 * hook (hundredths) -> 45 per hundredth, 0.3 -> 900, 0.6 -> 1800,
\* text penalty 2.0 / 1.0 -> 6000 / 3000, min(2.0, gap_ms/3000) -> min(6000, gap_ms)
ScoreCandidate(word_count, hook, gap_ms, start_clean, end_clean) ==
    LET text_penalty == IF word_count < 8 THEN 6000
                        ELSE IF word_count < 15 THEN 3000 ELSE 0
        gap_penalty == Min2(6000, gap_ms)
        hook_bonus == 45 * hook
        start_bonus == IF start_clean THEN 900 ELSE -900
        end_bonus == IF end_clean THEN 1800 ELSE -1800
    IN 300 * word_count + hook_bonus + start_bonus + end_bonus
         - text_penalty - gap_penalty

----------------------------------------------------------------------------
(* Breakpoint detector                                                     *)

RECURSIVE RawBreakpoints(_, _)
RawBreakpoints(segs, i) ==
    IF i >= Len(segs) THEN <<>>
    ELSE LET prev == segs[i]          \* segments[i - 1]
             curr == segs[i + 1]      \* segments[i]
             gap == curr.start_ms - prev.end_ms
             here ==
                 IF gap > LONG_GAP_MS THEN <<i>>
                 ELSE IF prev.emb # NoEmb /\ curr.emb # NoEmb
                         /\ CosineBelow(prev.emb, curr.emb, 1, 2)
                      THEN <<i>>
                      ELSE <<>>
         IN here \o RawBreakpoints(segs, i + 1)

\* the loop dropping an index equal to the one before it (lines 398-403)
RECURSIVE Cleaned(_, _)
Cleaned(bps, k) ==
    IF k > Len(bps) THEN <<>>
    ELSE IF k = 1 \/ bps[k] # bps[k - 1]
         THEN <<bps[k]>> \o Cleaned(bps, k + 1)
         ELSE Cleaned(bps, k + 1)

\* a detector that finds no breakpoint inside the transcript
FindBreakpointsWhole(segs) == <<0, Len(segs)>>

FindBreakpoints(segs) ==
    IF segs = <<>> THEN <<0>>
    ELSE CHOOSE r \in {Cleaned(bps, 1) :
             bps \in {<<0>> \o RawBreakpoints(segs, 1) \o <<Len(segs)>>}} : TRUE

----------------------------------------------------------------------------
(* Candidate builder                                                       *)

NoTrim == [present |-> FALSE, start_offset |-> 0, end_offset |-> 0]
NoConf == [tag |-> "none", val |-> 0]

\* gap_ms accumulated by the inner loop up to end_idx (tasks.py:475-483)
RECURSIVE GapMs(_, _, _)
GapMs(segs, start_idx, end_idx) ==
    IF end_idx <= start_idx THEN 0
    ELSE LET gap == Max2(0, segs[end_idx + 1].start_ms - segs[end_idx].end_ms)
         IN GapMs(segs, start_idx, end_idx - 1)
              + (IF gap > LONG_GAP_MS THEN gap ELSE 0)

Candidate(segs, start_idx, end_idx) ==
    LET start_segment == segs[start_idx + 1]
        segment == segs[end_idx + 1]
        prev_gap_ms ==
            IF start_idx > 0
            THEN Max2(0, start_segment.start_ms - segs[start_idx].end_ms)
            ELSE -1
        next_gap_ms ==
            IF end_idx + 1 < Len(segs)
            THEN Max2(0, segs[end_idx + 2].start_ms - segment.end_ms)
            ELSE -1
        start_clean == IsCleanStart(prev_gap_ms, start_segment.starts)
        end_clean == IsCleanEnd(next_gap_ms, segment.ends)
        gap_ms == GapMs(segs, start_idx, end_idx)
        words == SumWords(segs, start_idx, end_idx)
        hook == start_segment.hook
    IN [start_ms |-> start_segment.start_ms,
        end_ms |-> segment.end_ms,
        start_idx |-> start_idx,
        end_idx |-> end_idx,
        heuristic_score |->
            10 * ScoreCandidate(words, hook, gap_ms, start_clean, end_clean),
        heuristic_rationale |->
            <<words, gap_ms, hook, start_clean, end_clean, "">>,
        words |-> words,
        hook_score |-> hook,
        gap_ms |-> gap_ms,
        start_clean |-> start_clean,
        end_clean |-> end_clean,
        embedding |-> NoEmb,
        segment_type |-> "",
        heuristic_scaled |-> 0,
        llm_score |-> 0,
        llm_reason |-> "",
        llm_trim |-> NoTrim,
        llm_trim_confidence |-> NoConf,
        trim_applied |-> FALSE,
        score |-> 0,
        score_den |-> 1,
        rationale |-> <<>>,
        use_llm |-> FALSE,
        candidate_id |-> 0]

\* the inner loop over end_idx for one start_idx: `continue` below MIN_CLIP_MS,
\* on empty text and on a rough end under strict_end; `break` above MAX_CLIP_MS
RECURSIVE ExtendFrom(_, _, _, _, _)
ExtendFrom(segs, strict_end, start_idx, end_idx, window_end) ==
    IF end_idx >= window_end THEN <<>>
    ELSE LET c == Candidate(segs, start_idx, end_idx)
             duration == c.end_ms - c.start_ms
             rest == ExtendFrom(segs, strict_end, start_idx, end_idx + 1, window_end)
         IN IF duration < MIN_CLIP_MS THEN rest
            ELSE IF duration > MAX_CLIP_MS THEN <<>>
            ELSE IF c.words = 0 THEN rest
            ELSE IF strict_end /\ ~c.end_clean THEN rest
            ELSE <<c>> \o rest

RECURSIVE WindowCandidates(_, _, _, _)
WindowCandidates(segs, strict_end, start_idx, window_end) ==
    IF start_idx >= window_end THEN <<>>
    ELSE ExtendFrom(segs, strict_end, start_idx, start_idx, window_end)
           \o WindowCandidates(segs, strict_end, start_idx + 1, window_end)

RECURSIVE WindowsFrom(_, _, _, _)
WindowsFrom(segs, strict_end, bps, k) ==
    IF k >= Len(bps) THEN <<>>
    ELSE (IF bps[k] >= bps[k + 1] THEN <<>>
          ELSE WindowCandidates(segs, strict_end, bps[k], bps[k + 1]))
           \o WindowsFrom(segs, strict_end, bps, k + 1)

\* a builder that takes the whole transcript as its one window
BuildCandidatesWhole(segs, strict_end, breakpoints) ==
    WindowsFrom(segs, strict_end, <<0, Len(segs)>>, 1)

BuildCandidates(segs, strict_end, breakpoints) ==
    LET bps == IF breakpoints = <<>> THEN <<0, Len(segs)>> ELSE breakpoints
    IN WindowsFrom(segs, strict_end, bps, 1)

----------------------------------------------------------------------------
(* Semantic classifier                                                     *)

\* the four reference vectors of _get_segment_type_embeddings, in the order of
\* SEMANTIC_TYPE_EXAMPLES; they have the same norm, so that the similarities of
\* one centroid to them are ordered as the dot products are
SEMANTIC_TYPES == <<"exposition", "illustration", "application", "conclusion">>
TypeEmbedding(t) ==
    CASE t = "exposition" -> <<5, 0>>
      [] t = "illustration" -> <<0, 5>>
      [] t = "application" -> <<3, 4>>
      [] OTHER -> <<4, 3>>

\* SEMANTIC_TYPE_SCORES, in tenths
ScoreByType(t) ==
    CASE t = "application" -> 15
      [] t = "illustration" -> 12
      [] t = "conclusion" -> 10
      [] t = "exposition" -> 7
      [] OTHER -> 10

RECURSIVE SumEmb(_, _, _)
SumEmb(segs, i, j) ==
    IF i > j THEN <<0, 0>>
    ELSE LET r == SumEmb(segs, i + 1, j)
         IN <<segs[i + 1].emb[1] + r[1], segs[i + 1].emb[2] + r[2]>>

\* _attach_embeddings returns len(mapping) == len(segments)
EmbeddingsReady(segs) ==
    segs # <<>> /\ \A i \in 1..Len(segs) : segs[i].emb # NoEmb

\* _candidate_embedding: the centroid (prefix[end+1] - prefix[start]) / count.
\* The model keeps the sum: the centroid is only ever used in cosine
\* similarities, which do not depend on the positive factor 1/count.
CandidateEmbedding(segs, start_idx, end_idx) ==
    IF ~EmbeddingsReady(segs) THEN NoEmb
    ELSE IF start_idx < 0 \/ end_idx + 1 >= Len(segs) + 1 THEN NoEmb
    ELSE IF end_idx - start_idx + 1 <= 0 THEN NoEmb
    ELSE SumEmb(segs, start_idx, end_idx)

\* _classify_segment_type: first type of maximal similarity (strict >)
RECURSIVE ClassifyFrom(_, _, _, _)
ClassifyFrom(emb, k, best_type, best_dot) ==
    IF k > Len(SEMANTIC_TYPES) THEN best_type
    ELSE LET t == SEMANTIC_TYPES[k]
             d == IF Norm2(emb) = 0 THEN 0 ELSE Dot(emb, TypeEmbedding(t))
         IN IF k = 1 \/ d > best_dot
            THEN ClassifyFrom(emb, k + 1, t, d)
            ELSE ClassifyFrom(emb, k + 1, best_type, best_dot)

ClassifySegmentType(emb) == ClassifyFrom(emb, 1, "exposition", 0)

\* the loop body of _apply_semantic_scoring for one candidate
SemanticScored(segs, c) ==
    LET embedding == CandidateEmbedding(segs, c.start_idx, c.end_idx)
        segment_type == ClassifySegmentType(embedding)
    IN IF embedding = NoEmb THEN c
       ELSE [c EXCEPT
               !.embedding = embedding,
               !.segment_type = segment_type,
               !.heuristic_score = (c.heuristic_score * ScoreByType(segment_type)) \div 10,
               !.heuristic_rationale = [c.heuristic_rationale EXCEPT ![6] = segment_type]]

\* suggest_clips, lines 840-843: sort by heuristic score, type the first
\* SEMANTIC_TYPE_MAX in place
ApplySemanticScoring(segs, candidates) ==
    IF ~EmbeddingsReady(segs) \/ candidates = <<>> THEN candidates
    ELSE CHOOSE r \in
           {[i \in 1..Len(sorted) |->
                IF i <= SEMANTIC_TYPE_MAX THEN SemanticScored(segs, sorted[i])
                ELSE sorted[i]] :
            sorted \in {SortDesc(candidates, "heuristic_score")}} : TRUE

----------------------------------------------------------------------------
(* Overlap deduper and semantic deduper                                    *)

\* _overlap_ratio(a, b) > num/den
OverlapRatioAbove(a_start, a_end, b_start, b_end, num, den) ==
    LET overlap == Max2(0, Min2(a_end, b_end) - Max2(a_start, b_start))
        a_len == a_end - a_start
        b_len == b_end - b_start
    IN IF overlap <= 0 THEN FALSE
       ELSE IF a_len <= 0 \/ b_len <= 0 THEN FALSE
       ELSE overlap * den > num * Min2(a_len, b_len)

RECURSIVE DedupeFrom(_, _, _)
DedupeFrom(candidates, k, selected) ==
    IF k > Len(candidates) THEN selected
    ELSE LET candidate == candidates[k]
             is_duplicate ==
                 \E j \in 1..Len(selected) :
                     OverlapRatioAbove(candidate.start_ms, candidate.end_ms,
                                       selected[j].start_ms, selected[j].end_ms, 6, 10)
         IN CHOOSE r \in {DedupeFrom(candidates, k + 1, s) :
                s \in {IF is_duplicate THEN selected
                       ELSE Append(selected, candidate)}} : TRUE

\* a deduper that keeps every candidate
DedupeKeepsAll(candidates) == candidates

\* a deduper that keeps the first candidate only
DedupeFirstOnly(candidates) == Take(candidates, 1)

DedupeCandidates(candidates) ==
    CHOOSE r \in {DedupeFrom(c, 1, <<>>) : c \in {candidates}} : TRUE

\* a semantic deduper that compares nothing
SemanticDedupeKeepsAll(candidates) == candidates

\* _semantic_dedupe_candidates: SEMANTIC_DEDUPE_SIMILARITY = 0.86 = 43/50
RECURSIVE SemanticDedupeFrom(_, _, _, _)
SemanticDedupeFrom(candidates, k, selected, selected_embeddings) ==
    IF k > Len(candidates) THEN selected
    ELSE IF k - 1 >= SEMANTIC_DEDUPE_MAX
         THEN selected \o SubSeq(candidates, k, Len(candidates))
    ELSE LET candidate == candidates[k]
             embedding == candidate.embedding
             is_duplicate ==
                 \E j \in 1..Len(selected_embeddings) :
                     ~CosineBelow(embedding, selected_embeddings[j], 43, 50)
         IN CHOOSE r \in {SemanticDedupeFrom(candidates, k + 1, next[1], next[2]) :
                next \in {IF embedding = NoEmb
                          THEN <<Append(selected, candidate), selected_embeddings>>
                          ELSE IF is_duplicate
                          THEN <<selected, selected_embeddings>>
                          ELSE <<Append(selected, candidate),
                                 Append(selected_embeddings, embedding)>>}} : TRUE

SemanticDedupeCandidates(candidates) ==
    IF candidates = <<>> THEN <<>>
    ELSE CHOOSE r \in {SemanticDedupeFrom(c, 1, <<>>, <<>>) : c \in {candidates}} : TRUE

----------------------------------------------------------------------------
(* LLM client: score_clip_candidates (deepseek_client.py:165-274)          *)

\* A response of the remote endpoint, as far as the client inspects it:
\*   configured   api_key, base_url and model are all set and non-blank
\*   transport_ok requests.post returned (no RequestException)
\*   status_code  the HTTP status
\*   body_json    response.json() succeeds
\*   choices      "ok", "missing" (no choices) or "no_content"
\*   content_json _coerce_json(content) succeeds
\*   parsed       "list", "dict" (an object with a results/clips list) or "scalar"
\*   items        the elements of the parsed list
\* A raw item is [isdict, id, score, reason, trim, conf]: id 0 stands for a
\* missing or blank id, score and conf are tagged values ("num", "nan" for a
\* float NaN, "bad" for what float() rejects, "none" for null), trim.present
\* says that trim_suggestion is a JSON object.

\* the loop validating the items (deepseek_client.py:237-268), from item k on
RECURSIVE ValidatedFrom(_, _)
ValidatedFrom(items, k) ==
    IF k > Len(items) THEN <<>>
    ELSE LET item == items[k]
             \* max(0.0, min(100.0, score_val)): min and max keep their first
             \* argument when the comparison with NaN is false
             score == IF item.score.tag = "nan" THEN 100
                      ELSE Max2(0, Min2(100, item.score.val))
             trim_confidence_val ==
                 IF item.conf.tag \in {"num", "nan"} THEN item.conf ELSE NoConf
         IN IF ~item.isdict THEN ValidatedFrom(items, k + 1)
            ELSE IF item.id = 0 THEN ValidatedFrom(items, k + 1)
            ELSE IF item.score.tag \notin {"num", "nan"} THEN ValidatedFrom(items, k + 1)
            ELSE <<[id |-> item.id,
                    score |-> score,
                    reason |-> item.reason,
                    trim_suggestion |-> IF item.trim.present THEN item.trim ELSE NoTrim,
                    trim_confidence |-> trim_confidence_val]>>
                 \o ValidatedFrom(items, k + 1)

ValidatedResults(items) ==
    CHOOSE r \in {ValidatedFrom(its, 1) : its \in {items}} : TRUE

\* the outcome of the call: exc is "" when it returns, and then value is the
\* returned object {"clips": results, "token_usage": token_usage}
ScoreClipCandidates(response) ==
    LET failed == [exc |-> "DeepseekClientError", type |-> "none", clips |-> <<>>]
    IN IF ~response.configured THEN failed
       ELSE IF ~response.transport_ok THEN failed
       ELSE IF response.status_code >= 300 THEN failed
       ELSE IF ~response.body_json THEN failed
       ELSE IF response.choices # "ok" THEN failed
       ELSE IF ~response.content_json THEN failed
       ELSE IF response.parsed \notin {"list", "dict"} THEN failed
       ELSE CHOOSE r \in
              {IF results = <<>> THEN failed
               ELSE [exc |-> "", type |-> "dict", clips |-> results] :
               results \in {ValidatedResults(response.items)}} : TRUE

----------------------------------------------------------------------------
(* LLM scorer: _score_candidates_with_llm (tasks.py:558-592)               *)

\* lines 559-573: number the candidates c1, c2, ...
WithCandidateIds(candidates) ==
    [i \in 1..Len(candidates) |-> [candidates[i] EXCEPT !.candidate_id = i]]

\* result_map = {item["id"]: item for item in results}: the last item of an id wins
ResultIds(results) == {results[i].id : i \in 1..Len(results)}
ResultFor(results, id) ==
    results[CHOOSE i \in 1..Len(results) :
                /\ results[i].id = id
                /\ \A j \in (i + 1)..Len(results) : results[j].id # id]

\* lines 582-592 on a list of result items
ScoreWithResults(candidates, results) ==
    IF Cardinality(ResultIds(results)) # Len(candidates)
    THEN [exc |-> "DeepseekClientError", cands |-> candidates]
    ELSE IF \E i \in 1..Len(candidates) :
                candidates[i].candidate_id \notin ResultIds(results)
    THEN [exc |-> "TypeError", cands |-> candidates]   \* scored is None
    ELSE [exc |-> "",
          cands |-> [i \in 1..Len(candidates) |->
              LET scored == ResultFor(results, candidates[i].candidate_id)
              IN [candidates[i] EXCEPT
                    !.llm_score = scored.score,
                    !.llm_reason = scored.reason,
                    !.llm_trim = scored.trim_suggestion,
                    !.llm_trim_confidence = scored.trim_confidence]]]

\* the whole function: the value returned by the client is a dict, and
\* iterating a dict yields its keys, the strings "clips" and "token_usage", so
\* that item["id"] at line 582 raises TypeError
ScoreCandidatesWithLlm(candidates, response) ==
    CHOOSE r \in
      {IF returned.exc # "" THEN [exc |-> returned.exc, cands |-> numbered]
       ELSE IF returned.type = "dict" THEN [exc |-> "TypeError", cands |-> numbered]
       ELSE ScoreWithResults(numbered, returned.clips) :
       numbered \in {WithCandidateIds(candidates)},
       returned \in {ScoreClipCandidates(response)}} : TRUE

----------------------------------------------------------------------------
(* Score fuser and trim applier                                            *)

HeuristicValues(candidates) ==
    {candidates[i].heuristic_score : i \in 1..Len(candidates)}

MinHeuristic(candidates) ==
    CHOOSE v \in HeuristicValues(candidates) :
        \A u \in HeuristicValues(candidates) : v <= u

MaxHeuristic(candidates) ==
    CHOOSE v \in HeuristicValues(candidates) :
        \A u \in HeuristicValues(candidates) : v >= u

\* the common denominator of heuristic_scaled in one run: max - min, or 1 when
\* the range is degenerate
ScaleDen(candidates) ==
    IF candidates = <<>> THEN 1
    ELSE IF MaxHeuristic(candidates) = MinHeuristic(candidates) THEN 1
    ELSE MaxHeuristic(candidates) - MinHeuristic(candidates)

\* the heuristic score passed on as it is, in hundredths of the denominator
ScaleHeuristicScoresRaw(candidates) ==
    [i \in 1..Len(candidates) |->
        [candidates[i] EXCEPT !.heuristic_scaled = candidates[i].heuristic_score * 100]]

\* _scale_heuristic_scores: heuristic_scaled / ScaleDen is the scaled score
ScaleHeuristicScores(candidates) ==
    IF candidates = <<>> THEN candidates
    ELSE CHOOSE r \in
           {[i \in 1..Len(candidates) |->
               [candidates[i] EXCEPT !.heuristic_scaled =
                   IF max_score = min_score THEN 50
                   ELSE (candidates[i].heuristic_score - min_score) * 100]] :
            min_score \in {MinHeuristic(candidates)},
            max_score \in {MaxHeuristic(candidates)}} : TRUE

\* range(start_idx, end_idx + 1): first idx with segments[idx].end_ms >= new_start_ms
NewStartIdx(segs, start_idx, end_idx, new_start_ms) ==
    LET ok == {idx \in start_idx..end_idx : segs[idx + 1].end_ms >= new_start_ms}
    IN IF ok = {} THEN -1 ELSE CHOOSE idx \in ok : \A o \in ok : idx <= o

\* range(end_idx, new_start_idx - 1, -1): first idx with segments[idx].start_ms <= new_end_ms
NewEndIdx(segs, new_start_idx, end_idx, new_end_ms) ==
    LET ok == {idx \in new_start_idx..end_idx : segs[idx + 1].start_ms <= new_end_ms}
    IN IF ok = {} THEN -1 ELSE CHOOSE idx \in ok : \A o \in ok : idx >= o

\* trim_confidence_val < LLM_TRIM_CONFIDENCE_MIN on floats: false for NaN
ConfidenceBelowMin(conf) == conf.tag = "num" /\ conf.val < LLM_TRIM_CONFIDENCE_MIN

\* the trim applier without the duration check of lines 652-654
TrimOneUnchecked(candidate, segs) ==
    LET trim == candidate.llm_trim
        start_offset == Max2(0, trim.start_offset)
        end_offset == Abs(trim.end_offset)
        start_idx == candidate.start_idx
        end_idx == candidate.end_idx
        new_start_ms == candidate.start_ms + start_offset
        new_end_ms == candidate.end_ms - end_offset
        new_start_idx == NewStartIdx(segs, start_idx, end_idx, new_start_ms)
        new_end_idx == NewEndIdx(segs, new_start_idx, end_idx, new_end_ms)
    IN IF ~trim.present THEN candidate
       ELSE IF candidate.llm_trim_confidence.tag = "none" THEN candidate
       ELSE IF ConfidenceBelowMin(candidate.llm_trim_confidence) THEN candidate
       ELSE IF start_offset <= 0 /\ end_offset <= 0 THEN candidate
       ELSE IF start_idx < 0 \/ end_idx >= Len(segs) \/ start_idx > end_idx
            THEN candidate
       ELSE IF new_end_ms <= new_start_ms THEN candidate
       ELSE IF new_start_idx = -1 THEN candidate
       ELSE IF new_end_idx = -1 \/ new_end_idx < new_start_idx THEN candidate
       ELSE [candidate EXCEPT
               !.start_ms = segs[new_start_idx + 1].start_ms,
               !.end_ms = segs[new_end_idx + 1].end_ms,
               !.start_idx = new_start_idx,
               !.end_idx = new_end_idx,
               !.trim_applied = TRUE]

\* the loop body of _apply_trim_suggestions; offsets are in milliseconds,
\* int(round(offset_sec * 1000))
TrimOne(candidate, segs) ==
    LET trim == candidate.llm_trim
        start_offset == Max2(0, trim.start_offset)
        end_offset == Abs(trim.end_offset)
        start_idx == candidate.start_idx
        end_idx == candidate.end_idx
        new_start_ms == candidate.start_ms + start_offset
        new_end_ms == candidate.end_ms - end_offset
        new_start_idx == NewStartIdx(segs, start_idx, end_idx, new_start_ms)
        new_end_idx == NewEndIdx(segs, new_start_idx, end_idx, new_end_ms)
        adjusted_start_ms == segs[new_start_idx + 1].start_ms
        adjusted_end_ms == segs[new_end_idx + 1].end_ms
        duration_ms == adjusted_end_ms - adjusted_start_ms
    IN IF ~trim.present THEN candidate
       ELSE IF candidate.llm_trim_confidence.tag = "none" THEN candidate
       ELSE IF ConfidenceBelowMin(candidate.llm_trim_confidence) THEN candidate
       ELSE IF start_offset <= 0 /\ end_offset <= 0 THEN candidate
       ELSE IF start_idx < 0 \/ end_idx >= Len(segs) \/ start_idx > end_idx
            THEN candidate
       ELSE IF new_end_ms <= new_start_ms THEN candidate
       ELSE IF new_start_idx = -1 THEN candidate
       ELSE IF new_end_idx = -1 \/ new_end_idx < new_start_idx THEN candidate
       ELSE IF duration_ms < MIN_CLIP_MS \/ duration_ms > MAX_CLIP_MS THEN candidate
       ELSE [candidate EXCEPT
               !.start_ms = adjusted_start_ms,
               !.end_ms = adjusted_end_ms,
               !.start_idx = new_start_idx,
               !.end_idx = new_end_idx,
               !.trim_applied = TRUE]

ApplyTrimSuggestions(candidates, segs) ==
    [i \in 1..Len(candidates) |-> TrimOne(candidates[i], segs)]

\* suggest_clips, lines 871-882, for candidates scaled with denominator den
FuseScores(candidates, den) ==
    [i \in 1..Len(candidates) |->
        LET c == candidates[i]
        IN [c EXCEPT
              !.score = HEURISTIC_SCORE_WEIGHT * c.heuristic_scaled
                          + LLM_SCORE_WEIGHT * c.llm_score * den,
              !.score_den = 10 * den,
              !.rationale = IF c.llm_reason # "" THEN <<c.llm_reason>>
                            ELSE c.heuristic_rationale,
              !.use_llm = TRUE]]

\* suggest_clips, lines 884-890
HeuristicScores(candidates) ==
    [i \in 1..Len(candidates) |->
        LET c == candidates[i]
        IN [c EXCEPT
              !.score = c.heuristic_score,
              !.score_den = SCORE_UNIT,
              !.rationale = c.heuristic_rationale,
              !.use_llm = FALSE,
              !.llm_trim = NoTrim,
              !.llm_trim_confidence = NoConf,
              !.trim_applied = FALSE]]

\* lines 892-895 without the slice of line 896
DedupeNoTruncate(candidates) ==
    CHOOSE r \in
      {SemanticDedupeCandidates(SortDesc(deduped, "score")) :
       deduped \in {DedupeCandidates(SortDesc(candidates, "score"))}} : TRUE

\* suggest_clips, lines 892-896
DedupeAndTruncate(candidates) ==
    CHOOSE r \in
      {Take(SemanticDedupeCandidates(SortDesc(deduped, "score")), MAX_SUGGESTIONS) :
       deduped \in {DedupeCandidates(SortDesc(candidates, "score"))}} : TRUE

\* suggest_clips, lines 821-843: the fallback chain of the builder, then the
\* semantic classifier; <<>> stands for "No candidate clips generated"
\* a chain that tries the non-strict builder before the strict one
ChainFromLoose(segs, breakpoints) ==
    LET whole == <<0, Len(segs)>>
        c1 == BuildCandidates(segs, FALSE, breakpoints)
        c3 == BuildCandidates(segs, FALSE, whole)
    IN IF c1 # <<>> THEN c1 ELSE c3

ChainFrom(segs, breakpoints) ==
    LET whole == <<0, Len(segs)>>
        c1 == BuildCandidates(segs, TRUE, breakpoints)
        c2 == BuildCandidates(segs, FALSE, breakpoints)
        c3 == BuildCandidates(segs, TRUE, whole)
        c4 == BuildCandidates(segs, FALSE, whole)
    IN IF c1 # <<>> THEN c1
       ELSE IF c2 # <<>> THEN c2
       ELSE IF breakpoints = whole THEN <<>>
       ELSE IF c3 # <<>> THEN c3
       ELSE c4

BuildChain(segs) ==
    CHOOSE r \in {ApplySemanticScoring(segs, built) :
                  built \in {ChainFrom(segs, FindBreakpoints(segs))}} : TRUE

----------------------------------------------------------------------------
(* Inputs: transcripts and LLM answers                                     *)

\* The shapes a segment is drawn from: the gap to the previous segment's end
\* (negative: the segments overlap), its duration, and what the scorer reads
\* of its text.
KShort ==
    [gap |-> 0, dur |-> 10000, words |-> 12, starts |-> TRUE, ends |-> TRUE,
     hook |-> 0, emb |-> <<5, 0>>]
KMid ==
    [gap |-> 600, dur |-> 40000, words |-> 60, starts |-> FALSE, ends |-> FALSE,
     hook |-> 35, emb |-> <<0, 5>>]
KAfterPause ==
    [gap |-> 2000, dur |-> 40000, words |-> 5, starts |-> TRUE, ends |-> TRUE,
     hook |-> 0, emb |-> <<4, 3>>]
KOverlap ==
    [gap |-> -5000, dur |-> 50000, words |-> 40, starts |-> FALSE, ends |-> TRUE,
     hook |-> 100, emb |-> <<5, 1>>]
KLong ==
    [gap |-> 0, dur |-> 130000, words |-> 90, starts |-> TRUE, ends |-> FALSE,
     hook |-> 10, emb |-> <<1, 5>>]

SegKinds == {KShort, KMid, KAfterPause, KOverlap, KLong}

EmbModes == {"none", "all", "partial"}

\* the segment rows of a transcript, ordered by start_ms, from a sequence of
\* kinds: rows holds the first n - 1 of them
RECURSIVE MkTranscriptFrom(_, _, _, _)
MkTranscriptFrom(kinds, embMode, n, rows) ==
    IF n > Len(kinds) THEN rows
    ELSE LET k == kinds[n]
             start_ms == IF n = 1 THEN Max2(0, k.gap)
                         ELSE Max2(rows[n - 1].start_ms + 1,
                                   rows[n - 1].end_ms + k.gap)
         IN CHOOSE r \in
              {MkTranscriptFrom(kinds, embMode, n + 1, next) :
               next \in {Append(rows,
                   [start_ms |-> start_ms,
                    end_ms |-> start_ms + k.dur,
                    words |-> k.words,
                    starts |-> k.starts,
                    ends |-> k.ends,
                    hook |-> k.hook,
                    emb |-> IF embMode = "all" \/ (embMode = "partial" /\ n > 1)
                            THEN k.emb ELSE NoEmb])}} : TRUE

MkTranscript(kinds, embMode) == MkTranscriptFrom(kinds, embMode, 1, <<>>)

KindSeqs == UNION {[1..n -> SegKinds] : n \in 0..MaxSegs}

Transcripts == {MkTranscript(ks, m) : ks \in KindSeqs, m \in EmbModes}

\* a sermon of more separate passages than MAX_SUGGESTIONS
LongSermon ==
    MkTranscript([i \in 1..(MAX_SUGGESTIONS + 2) |-> KAfterPause], "none")

\* a transcript, ordered by start_ms, whose second segment starts and ends
\* inside the first
NestedSermon ==
    MkTranscript(<<KMid, [KShort EXCEPT !.gap = -15000]>>, "none")

\* three short passages, each after a pause longer than LONG_GAP_MS
PausedSermon ==
    MkTranscript([i \in 1..3 |-> [KShort EXCEPT !.gap = 2000]], "none")

\* breakpoint lists handed to the builder directly
BreakpointLists(n) ==
    UNION {[1..k -> 0..n] : k \in 0..2}
      \cup {b \in [1..3 -> 0..n] : b[1] <= b[2] /\ b[2] <= b[3]}

\* What the LLM may answer for one candidate.
Num(v) == [tag |-> "num", val |-> v]
Trim(s, e) == [present |-> TRUE, start_offset |-> s, end_offset |-> e]
LlmAnswers ==
    { [ok |-> TRUE,  score |-> Num(55),  reason |-> "r", trim |-> NoTrim,
       conf |-> NoConf],
      [ok |-> TRUE,  score |-> Num(150), reason |-> "",  trim |-> Trim(11000, 0),
       conf |-> Num(90)],
      [ok |-> TRUE,  score |-> Num(-10), reason |-> "r", trim |-> Trim(0, -11000),
       conf |-> Num(80)],
      [ok |-> TRUE,  score |-> Num(80),  reason |-> "",  trim |-> Trim(11000, 11000),
       conf |-> Num(50)],
      [ok |-> TRUE,  score |-> Num(20),  reason |-> "r", trim |-> Trim(0, 0),
       conf |-> Num(95)],
      [ok |-> TRUE,  score |-> [tag |-> "nan", val |-> 0], reason |-> "",
       trim |-> Trim(-3000, 41000), conf |-> [tag |-> "nan", val |-> 0]],
      [ok |-> TRUE,  score |-> Num(70),  reason |-> "",  trim |-> Trim(45000, 45000),
       conf |-> Num(100)],
      [ok |-> FALSE, score |-> [tag |-> "bad", val |-> 0], reason |-> "",
       trim |-> NoTrim, conf |-> NoConf] }

\* the raw items of an answer that gives answer a1 to the odd and a2 to the
\* even candidate ids
RawItems(n, a1, a2) ==
    [i \in 1..n |->
        LET a == IF i % 2 = 1 THEN a1 ELSE a2
        IN [isdict |-> TRUE, id |-> i, score |-> a.score, reason |-> a.reason,
            trim |-> a.trim, conf |-> a.conf]]

----------------------------------------------------------------------------
(* The database and the task requests                                      *)

SermonId == 1
OtherSermonId == 2
Workers == {1, 2}

\* deleted_at: 0 is NULL, a positive value is a point in time
ClipRow(id, sermon_id, source, deleted_at) ==
    [id |-> id, sermon_id |-> sermon_id, start_ms |-> 0, end_ms |-> 45000,
     source |-> source, score |-> 0, score_den |-> 1, rationale |-> <<>>,
     use_llm |-> FALSE, llm_trim |-> NoTrim, llm_trim_confidence |-> NoConf,
     trim_applied |-> FALSE, status |-> "pending",
     deleted_at |-> deleted_at, updated_at |-> deleted_at, by |-> <<0, 0>>]

\* the clips that exist before any task runs: a suggestion of an earlier run,
\* a clip the user made, a suggestion already soft-deleted, and a suggestion
\* of another sermon
InitialClips ==
    << ClipRow(1, SermonId, "auto", 0),
       ClipRow(2, SermonId, "manual", 0),
       ClipRow(3, SermonId, "auto", 1),
       ClipRow(4, OtherSermonId, "auto", 0) >>

\* WHERE sermon_id = :id AND deleted_at IS NULL, whatever the source
LiveIdsAnySource(table) ==
    {table[i].id : i \in {j \in 1..Len(table) :
        /\ table[j].sermon_id = SermonId
        /\ table[j].deleted_at = 0}}

\* WHERE sermon_id = :id AND source = 'auto' AND deleted_at IS NULL
LiveAutoIds(table) ==
    {table[i].id : i \in {j \in 1..Len(table) :
        /\ table[j].sermon_id = SermonId
        /\ table[j].source = "auto"
        /\ table[j].deleted_at = 0}}

InsertedBy(table, w, attempt) ==
    {table[i].id : i \in {j \in 1..Len(table) : table[j].by = <<w, attempt>>}}

\* an UPDATE that matches no row
SoftDeletedNone(table, ids, now) == table

\* UPDATE clips SET deleted_at = now, updated_at = now WHERE id IN ids
SoftDeleted(table, ids, now) ==
    [i \in 1..Len(table) |->
        IF table[i].id \in ids
        THEN [table[i] EXCEPT !.deleted_at = now, !.updated_at = now]
        ELSE table[i]]

\* the UPDATE of lines 905-913 committed on its own (an autocommit session)
CommittedAutocommit(table, ids, now) == SoftDeleted(table, ids, now)

\* the committed table while the UPDATE of a task sits in its open
\* transaction (SessionLocal: autocommit=False): nothing of it is visible
CommittedDuringTransaction(table, ids, now) == table

\* session.add(Clip(...)) for every candidate, lines 916-932
NewClipRows(table, candidates, w, attempt) ==
    [i \in 1..Len(candidates) |->
        LET c == candidates[i]
        IN [id |-> Len(table) + i, sermon_id |-> SermonId,
            start_ms |-> c.start_ms, end_ms |-> c.end_ms, source |-> "auto",
            score |-> c.score, score_den |-> c.score_den,
            rationale |-> c.rationale, use_llm |-> c.use_llm,
            llm_trim |-> c.llm_trim,
            llm_trim_confidence |-> c.llm_trim_confidence,
            trim_applied |-> c.trim_applied, status |-> "pending",
            deleted_at |-> 0, updated_at |-> 0, by |-> <<w, attempt>>]]

\* the transcripts a sermon of the task model may have
SysTranscripts ==
    { MkTranscript(<<KMid, KAfterPause, KMid>>, "all"),
      MkTranscript(<<KLong>>, "none") }

\* the answers of the LLM endpoint a run may get (see ScoreClipCandidates);
\* `answer` says which items the parsed list has for the n submitted candidates
GoodResponse ==
    [configured |-> TRUE, transport_ok |-> TRUE, status_code |-> 200,
     body_json |-> TRUE, choices |-> "ok", content_json |-> TRUE,
     parsed |-> "list", answer |-> "complete"]

FailingResponses ==
    { [GoodResponse EXCEPT !.configured = FALSE],
      [GoodResponse EXCEPT !.transport_ok = FALSE],
      [GoodResponse EXCEPT !.status_code = 503],
      [GoodResponse EXCEPT !.body_json = FALSE],
      [GoodResponse EXCEPT !.choices = "missing"],
      [GoodResponse EXCEPT !.choices = "no_content"],
      [GoodResponse EXCEPT !.content_json = FALSE],
      [GoodResponse EXCEPT !.answer = "unusable"] }

ReturningResponses ==
    { GoodResponse,
      [GoodResponse EXCEPT !.parsed = "dict"],
      [GoodResponse EXCEPT !.answer = "partial"] }

Responses == FailingResponses \cup ReturningResponses

AnswerGood == CHOOSE a \in LlmAnswers : a.ok /\ a.score = Num(55)
AnswerTrim == CHOOSE a \in LlmAnswers : a.ok /\ a.score = Num(150)
AnswerBad == CHOOSE a \in LlmAnswers : ~a.ok

ItemsFor(answer, n) ==
    CASE answer = "complete" -> RawItems(n, AnswerGood, AnswerTrim)
      [] answer = "partial" -> SubSeq(RawItems(n, AnswerGood, AnswerTrim), 1, 1)
      [] OTHER -> RawItems(n, AnswerBad, AnswerBad)

\* how many validated results ScoreClipCandidates returned for n candidates
LlmClass(response, n) ==
    LET r == ScoreClipCandidates(
                 response @@ [items |-> ItemsFor(response.answer, n)])
    IN IF r.exc # "" THEN "failed"
       ELSE IF Len(r.clips) < n THEN "partial" ELSE "complete"

----------------------------------------------------------------------------
(* suggest_clips lines 821-896: from the loaded segments to the candidates *)
(* to persist                                                              *)

UseLlmEffective(use_llm) ==
    IF use_llm = "none" THEN FALSE   \* settings.use_llm_for_clip_suggestions
    ELSE use_llm = "true"

\* candidate_id is set on the dicts shared by llm_candidates and all_candidates
MarkIds(all_candidates, numbered) ==
    [i \in 1..Len(all_candidates) |->
        LET c == all_candidates[i]
            same == {k \in 1..Len(numbered) :
                        /\ numbered[k].start_idx = c.start_idx
                        /\ numbered[k].end_idx = c.end_idx}
        IN IF same = {} THEN c
           ELSE [c EXCEPT !.candidate_id = numbered[CHOOSE k \in same : TRUE].candidate_id]]

\* the LLM branch without its except clause
CaughtByNothing(exc) == FALSE

\* `except DeepseekClientError` of the LLM branch (tasks.py:860)
CaughtByFallback(exc) == exc = "DeepseekClientError"

\* lines 845-896 on the candidates of the builder
PipelineOn(segs, all_candidates, use_llm_effective, response) ==
    IF all_candidates = <<>>
    THEN [exc |-> "ValueError", llm_used |-> FALSE, cands |-> <<>>]
    ELSE IF ~use_llm_effective
    THEN [exc |-> "", llm_used |-> FALSE,
          cands |-> DedupeAndTruncate(HeuristicScores(all_candidates))]
    ELSE CHOOSE r \in
      {IF scored.exc # "" /\ CaughtByFallback(scored.exc)
       THEN [exc |-> "", llm_used |-> FALSE,
             cands |-> DedupeAndTruncate(
                           HeuristicScores(MarkIds(all_candidates, scored.cands)))]
       ELSE IF scored.exc # ""
       THEN [exc |-> scored.exc, llm_used |-> FALSE, cands |-> <<>>]
       ELSE CHOOSE q \in
              {[exc |-> "", llm_used |-> TRUE,
                cands |-> DedupeAndTruncate(
                              FuseScores(ApplyTrimSuggestions(scaled, segs),
                                         ScaleDen(scaled)))] :
               scaled \in {ScaleHeuristicScores(scored.cands)}} : TRUE :
       scored \in
         {ScoreCandidatesWithLlm(
              llm_candidates,
              response @@ [items |-> ItemsFor(response.answer, Len(llm_candidates))]) :
          llm_candidates \in
            {Take(SortDesc(all_candidates, "heuristic_score"), LLM_MAX_CANDIDATES)}}}
      : TRUE

Pipeline(segs, use_llm_effective, response) ==
    CHOOSE r \in {PipelineOn(segs, all_candidates, use_llm_effective, response) :
                  all_candidates \in {BuildChain(segs)}} : TRUE

----------------------------------------------------------------------------
(* The task suggest_clips (tasks.py:787-967), one database round trip or   *)
(* remote call per step, and the API's delete_sermon                       *)

IdleTask(use_llm) ==
    [pc |-> "queued",        \* where the request is
     retries |-> 0,          \* task.request.retries
     use_llm |-> use_llm,    \* the keyword argument: "none", "true", "false"
     kwargs |-> IF use_llm = "none" THEN {} ELSE {"use_llm"},
                             \* the keywords of the call
     llm_method |-> "",      \* the value sent under the keyword llm_method
     seen |-> FALSE,         \* `sermon is not None`
     segments |-> <<>>,
     cands |-> <<>>,
     llm |-> "off",          \* what the LLM call came to: off, failed, partial, complete
     snap |-> {},            \* the rows the UPDATE found when it started
     pending |-> {},         \* rows soft-deleted in the open transaction
     now |-> 0,
     created |-> 0,
     exc |-> "",             \* the exception that ended the attempt
     msg |-> "",             \* str(exc)
     result |-> "",          \* suggestions, deleted, error, rejected
     before |-> {},          \* the non-deleted auto clips when the attempt started
     deleted_mid_run |-> FALSE] \* the sermon was soft-deleted between the entry
                             \* check and the commit of the attempt's results

\* a slot for which nothing was enqueued yet
NoRequest == [IdleTask("none") EXCEPT !.pc = "idle"]

\* the parameters of suggest_clips(self, sermon_id, use_llm=None) that a
\* keyword can name
SuggestClipsKeywords == {"sermon_id", "use_llm"}

\* the call self.run(*args, **kwargs) binds: every keyword names a parameter
Binds(t) == t.kwargs \subseteq SuggestClipsKeywords

\* settings.use_llm_for_clip_suggestions of the API
api_use_llm_for_clip_suggestions == FALSE

\* the values the query parameter llm_method accepts
LlmMethods == {"scoring", "selection", "generation", "full-context"}

\* past the entry check (line 796) and before the commit of line 934
BeforeWrite(t) ==
    t.pc \in {"clear_error", "load_segments", "attach", "compute",
              "update", "update_wait", "insert"}

\* a string of n copies of str
RECURSIVE Repeated(_, _)
Repeated(str, n) == IF n = 0 THEN "" ELSE str \o Repeated(str, n - 1)

\* str(exc) of an exception raised by task record t: the ValueErrors of lines
\* 810 and 838, the TypeError of line 582, and the text of an
\* OperationalError, which quotes the failed statement and its parameters
StrOfException(t, exc) ==
    CASE exc = "ValueError" /\ t.pc = "load_segments" ->
             "No transcript segments available"
      [] exc = "ValueError" -> "No candidate clips generated"
      [] exc = "TypeError" -> "string indices must be integers"
      [] OTHER -> "(psycopg2.OperationalError) server closed the connection "
                    \o Repeated("[SQL: INSERT INTO clips (sermon_id, start_ms) ...] ", 24)

Raise(t, exc) ==
    [t EXCEPT !.pc = "failed", !.exc = exc, !.msg = StrOfException(t, exc)]

\* rows of other open transactions' UPDATEs are locked until they end
LockedByOthers(w) == UNION {task[o].pending : o \in Workers \ {w}}

\* a statement of task w fails with OperationalError: the first error of an
\* outage can meet any request, a later one meets a retry of a request that
\* failed before
DatabaseError(w) ==
    /\ task[w].pc \in {"queued", "load_segments", "update", "insert", "refresh"}
    /\ Binds(task[w])
    /\ faults <= task[w].retries
    /\ faults' = faults + 1
    /\ task' = [task EXCEPT ![w] =
                  [Raise(task[w], "OperationalError") EXCEPT
                      !.seen = (task[w].pc # "queued"),
                      !.before = IF task[w].pc = "queued"
                                 THEN LiveAutoIds(clips) ELSE @]]
    /\ UNCHANGED <<sermon, transcript, clips, clock, fnVars>>

\* POST /sermons/{sermon_id}/suggest (sermons.py:304-337): 404 for a missing
\* or deleted sermon, else send_task("worker.suggest_clips", args=[sermon.id],
\* kwargs={"use_llm": use_llm_effective, "llm_method": llm_method})
ApiSuggest(w) ==
    /\ task[w].pc = "idle"
    /\ sermon.deleted_at = 0
    /\ \E use_llm \in {"none", "true", "false"}, llm_method \in LlmMethods :
       \E use_llm_effective \in
            {IF use_llm = "none" THEN api_use_llm_for_clip_suggestions
             ELSE use_llm = "true"} :
          task' = [task EXCEPT ![w] =
                     [IdleTask(IF use_llm_effective THEN "true" ELSE "false")
                        EXCEPT !.kwargs = {"use_llm", "llm_method"},
                               !.llm_method = llm_method]]
    /\ UNCHANGED <<sermon, transcript, clips, clock, faults, fnVars>>

\* the worker calls the task with the message's arguments; a keyword that
\* names no parameter of line 787 raises TypeError before the body runs, so
\* neither its try nor its except handler is entered
RejectCall(w) ==
    /\ task[w].pc = "queued"
    /\ ~Binds(task[w])
    /\ task' = [task EXCEPT ![w] =
                  [@ EXCEPT !.pc = "done", !.result = "rejected",
                            !.exc = "TypeError",
                            !.msg = "suggest_clips() got an unexpected keyword argument"]]
    /\ UNCHANGED <<sermon, transcript, clips, clock, faults, fnVars>>

\* lines 788-796: session.get(Sermon, sermon_id) and the entry check
Start(w) ==
    /\ task[w].pc = "queued"
    /\ Binds(task[w])
    /\ task' = [task EXCEPT ![w] =
                  IF sermon.deleted_at # 0
                  THEN [@ EXCEPT !.pc = "done", !.result = "deleted", !.seen = TRUE,
                                 !.before = LiveAutoIds(clips)]
                  ELSE [@ EXCEPT !.pc = "clear_error", !.seen = TRUE,
                                 !.before = LiveAutoIds(clips),
                                 !.exc = ""]]
    /\ UNCHANGED <<sermon, transcript, clips, clock, faults, fnVars>>

\* lines 797-798: sermon.error_message = None; session.commit()
ClearError(w) ==
    /\ task[w].pc = "clear_error"
    /\ sermon' = [sermon EXCEPT !.error_message = ""]
    /\ task' = [task EXCEPT ![w].pc = "load_segments"]
    /\ UNCHANGED <<transcript, clips, clock, faults, fnVars>>

\* lines 800-810: the non-deleted segments ordered by start_ms
LoadSegments(w) ==
    /\ task[w].pc = "load_segments"
    /\ LET segments == IF transcript.deleted_at = 0 THEN transcript.segs ELSE <<>>
       IN task' = [task EXCEPT ![w] =
                     IF segments = <<>> THEN Raise(@, "ValueError")
                     ELSE [@ EXCEPT !.pc = "attach",
                                    !.segments = [i \in 1..Len(segments) |->
                                        [segments[i] EXCEPT !.emb = NoEmb]]]]
    /\ UNCHANGED <<sermon, transcript, clips, clock, faults, fnVars>>

\* line 812, _attach_embeddings: the non-deleted embeddings of the segments
AttachEmbeddings(w) ==
    /\ task[w].pc = "attach"
    /\ task' = [task EXCEPT ![w] =
                  [@ EXCEPT !.pc = "compute",
                            !.segments =
                                IF transcript.deleted_at = 0
                                THEN [i \in 1..Len(@) |->
                                        [@[i] EXCEPT !.emb = transcript.segs[i].emb]]
                                ELSE @]]
    /\ UNCHANGED <<sermon, transcript, clips, clock, faults, fnVars>>

\* lines 813-902 without the LLM: candidates, scoring, dedupe
ComputeHeuristic(w) ==
    /\ task[w].pc = "compute"
    /\ ~UseLlmEffective(task[w].use_llm)
    /\ \E r \in {Pipeline(task[w].segments, FALSE, GoodResponse)} :
          task' = [task EXCEPT ![w] =
                     IF r.exc # "" THEN Raise(@, r.exc)
                     ELSE [@ EXCEPT !.pc = "update", !.cands = r.cands, !.llm = "off"]]
    /\ UNCHANGED <<sermon, transcript, clips, clock, faults, fnVars>>

\* lines 813-902 with the LLM call, whatever the endpoint answers
ComputeWithLlm(w) ==
    /\ task[w].pc = "compute"
    /\ UseLlmEffective(task[w].use_llm)
    /\ \E response \in Responses :
       \E all_candidates \in {BuildChain(task[w].segments)} :
       \E r \in {PipelineOn(task[w].segments, all_candidates, TRUE, response)} :
       \E class \in {IF all_candidates = <<>> THEN "off"
                     ELSE LlmClass(response,
                                   Min2(Len(all_candidates), LLM_MAX_CANDIDATES))} :
             task' = [task EXCEPT ![w] =
                        IF r.exc # ""
                        THEN [Raise(@, r.exc) EXCEPT !.llm = class]
                        ELSE [@ EXCEPT !.pc = "update", !.cands = r.cands,
                                       !.llm = class]]
    /\ UNCHANGED <<sermon, transcript, clips, clock, faults, fnVars>>

\* lines 904-913: the UPDATE soft-deleting the sermon's non-deleted auto clips.
\* The statement reads the committed rows when it starts; rows locked by
\* another transaction make it wait.
SoftDeleteOld(w) ==
    /\ task[w].pc = "update"
    /\ LET targets == LiveAutoIds(clips)
       IN IF targets \cap LockedByOthers(w) = {}
          THEN /\ task' = [task EXCEPT ![w] =
                             [@ EXCEPT !.pc = "insert", !.pending = targets,
                                       !.now = clock]]
               /\ clips' = CommittedDuringTransaction(clips, targets, clock)
          ELSE /\ task' = [task EXCEPT ![w] =
                             [@ EXCEPT !.pc = "update_wait", !.snap = targets,
                                       !.now = clock]]
               /\ clips' = clips
    /\ clock' = clock + 1
    /\ UNCHANGED <<sermon, transcript, faults, fnVars>>

\* the waiting UPDATE goes on when the locks are released: of the rows it
\* found it updates those that still match its WHERE clause
SoftDeleteResume(w) ==
    /\ task[w].pc = "update_wait"
    /\ task[w].snap \cap LockedByOthers(w) = {}
    /\ LET targets == task[w].snap \cap LiveAutoIds(clips)
       IN /\ task' = [task EXCEPT ![w] =
                        [@ EXCEPT !.pc = "insert", !.pending = targets, !.snap = {}]]
          /\ clips' = CommittedDuringTransaction(clips, targets, task[w].now)
    /\ UNCHANGED <<sermon, transcript, clock, faults, fnVars>>

\* lines 915-934: the INSERTs are flushed by session.commit(), which makes
\* them and the soft-deletes visible together
InsertAndCommit(w) ==
    /\ task[w].pc = "insert"
    /\ LET stamped == SoftDeleted(clips, task[w].pending, task[w].now)
       IN clips' = stamped \o NewClipRows(stamped, task[w].cands, w, task[w].retries)
    /\ task' = [task EXCEPT ![w] =
                  [@ EXCEPT !.pc = "refresh", !.pending = {},
                            !.created = Len(task[w].cands)]]
    /\ UNCHANGED <<sermon, transcript, clock, faults, fnVars>>

\* lines 936-939: session.refresh(sermon) and the check of deleted_at
Refresh(w) ==
    /\ task[w].pc = "refresh"
    /\ task' = [task EXCEPT ![w] =
                  IF sermon.deleted_at # 0
                  THEN [@ EXCEPT !.pc = "done", !.result = "deleted"]
                  ELSE [@ EXCEPT !.pc = "finish"]]
    /\ UNCHANGED <<sermon, transcript, clips, clock, faults, fnVars>>

\* lines 940-956: status = suggested, commit, return
Finish(w) ==
    /\ task[w].pc = "finish"
    /\ sermon' = [sermon EXCEPT !.status = "suggested"]
    /\ task' = [task EXCEPT ![w] =
                  [@ EXCEPT !.pc = "done", !.result = "suggestions"]]
    /\ UNCHANGED <<transcript, clips, clock, faults, fnVars>>

\* every exception counted as retryable
RetryableAlways(exc) == TRUE

\* isinstance(exc, RETRYABLE_EXCEPTIONS), tasks.py:124-132 and 148
Retryable(exc) == exc = "OperationalError"

\* a retry granted also when retries = max_retries
WillRetryOnceMore(t) == Retryable(t.exc) /\ t.retries <= celery_max_retries

\* _maybe_retry raises task.retry(...)
WillRetry(t) == Retryable(t.exc) /\ t.retries < celery_max_retries

\* str(exc)[:1000], line 962
ErrorMessage(msg) == SubSeq(msg, 1, Min2(Len(msg), ERROR_MESSAGE_MAX))

\* lines 957-967, a retryable exception with retries left: rollback, and
\* the request is queued again
HandleErrorRetry(w) ==
    /\ task[w].pc = "failed"
    /\ WillRetry(task[w])
    /\ task' = [task EXCEPT ![w] =
                  [IdleTask(task[w].use_llm) EXCEPT
                      !.retries = task[w].retries + 1]]
    /\ UNCHANGED <<sermon, transcript, clips, clock, faults, fnVars>>

\* lines 957-967, a terminal exception: rollback, record the error on the
\* sermon row if it was loaded, re-raise
HandleErrorTerminal(w) ==
    /\ task[w].pc = "failed"
    /\ ~WillRetry(task[w])
    /\ sermon' = IF task[w].seen
                 THEN [sermon EXCEPT !.status = "error",
                                     !.error_message = ErrorMessage(task[w].msg)]
                 ELSE sermon
    /\ task' = [task EXCEPT ![w] =
                  [@ EXCEPT !.pc = "done", !.result = "error", !.pending = {},
                            !.snap = {}]]
    /\ UNCHANGED <<transcript, clips, clock, faults, fnVars>>

\* DELETE /sermons/{id} (sermons.py:157-190): soft-deletes the sermon, its
\* clips, segments and embeddings in one transaction; its UPDATE of the
\* clips waits for rows locked by a task
DeleteSermon ==
    /\ sermon.deleted_at = 0
    /\ \A w \in Workers : task[w].pending = {}
    /\ sermon' = [sermon EXCEPT !.deleted_at = clock]
    /\ clips' = SoftDeleted(clips,
                            {clips[i].id : i \in {j \in 1..Len(clips) :
                                /\ clips[j].sermon_id = SermonId
                                /\ clips[j].deleted_at = 0}},
                            clock)
    /\ transcript' = [transcript EXCEPT !.deleted_at = clock]
    /\ task' = [w \in Workers |->
                  IF BeforeWrite(task[w])
                  THEN [task[w] EXCEPT !.deleted_mid_run = TRUE]
                  ELSE task[w]]
    /\ clock' = clock + 1
    /\ UNCHANGED <<faults, fnVars>>

\* DELETE /sermons/{sermon_id}/suggestions (sermons.py:374-401): 404 for a
\* missing or deleted sermon, else soft-deletes the sermon's non-deleted auto
\* clips and commits
DeleteSuggestions ==
    /\ sermon.deleted_at = 0
    /\ clock < MaxClock
    /\ \A w \in Workers : task[w].pending = {}
    /\ clips' = SoftDeleted(clips, LiveAutoIds(clips), clock)
    /\ clock' = clock + 1
    /\ UNCHANGED <<sermon, transcript, task, faults, fnVars>>

\* DELETE /clips/{clip_id} (clips.py:109-115): 404 when there is no such
\* row, else session.delete(clip) and commit
DeleteClip(clip_id) ==
    /\ \E i \in 1..Len(clips) : clips[i].id = clip_id
    /\ \A w \in Workers : task[w].pending = {}
    /\ clips' = SelectSeq(clips, LAMBDA c : c.id # clip_id)
    /\ UNCHANGED <<sermon, transcript, task, clock, faults, fnVars>>

SysInit ==
    /\ sermon \in {[deleted_at |-> 0, status |-> "transcribed", error_message |-> ""],
                   [deleted_at |-> 0, status |-> "error", error_message |-> "stale"]}
    /\ transcript \in {[segs |-> t, deleted_at |-> 0] : t \in SysTranscripts}
    /\ clips = InitialClips
    /\ \E u1 \in {"none", "true"}, r2 \in {IdleTask("false"), NoRequest} :
          task = [w \in Workers |-> IF w = 1 THEN IdleTask(u1) ELSE r2]
    /\ clock = 2
    /\ faults = 0

TaskStep(w) ==
    \/ RejectCall(w)
    \/ Start(w)
    \/ ClearError(w)
    \/ LoadSegments(w)
    \/ AttachEmbeddings(w)
    \/ ComputeHeuristic(w)
    \/ ComputeWithLlm(w)
    \/ SoftDeleteOld(w)
    \/ SoftDeleteResume(w)
    \/ InsertAndCommit(w)
    \/ Refresh(w)
    \/ Finish(w)
    \/ DatabaseError(w)
    \/ HandleErrorRetry(w)
    \/ HandleErrorTerminal(w)


----------------------------------------------------------------------------
(* The pipeline of suggest_clips, one component at a time                  *)

FnInit ==
    /\ fnSegs \in Transcripts \cup {LongSermon, NestedSermon, PausedSermon}
    /\ fnCands = <<>>
    /\ fnPre = <<>>
    /\ fnStage = "init"
    /\ fnArgs = [strict_end |-> TRUE, breakpoints |-> <<>>]
    /\ fnDelay = 0
    /\ sermon = [deleted_at |-> 0, status |-> "transcribed", error_message |-> ""]
    /\ transcript = [segs |-> <<>>, deleted_at |-> 0]
    /\ clips = <<>>
    /\ task = [w \in Workers |-> IdleTask("none")]
    /\ clock = 2
    /\ faults = 0

\* _build_candidates called with any strict_end and any breakpoint list
FnBuild ==
    /\ fnStage = "init"
    /\ fnSegs # <<>>
    /\ Len(fnSegs) <= MaxSegs
    /\ \E strict_end \in BOOLEAN, bps \in BreakpointLists(Len(fnSegs)) :
          /\ fnCands' = BuildCandidates(fnSegs, strict_end, bps)
          /\ fnArgs' = [strict_end |-> strict_end, breakpoints |-> bps]
    /\ fnStage' = "built_direct"
    /\ UNCHANGED <<fnSegs, fnPre, fnDelay, sysVars>>

\* lines 821-843
FnBuildChain ==
    /\ fnStage = "init"
    /\ fnSegs # <<>>
    /\ \E built \in {BuildChain(fnSegs)} :
          /\ fnCands' = built
          /\ fnStage' = IF built = <<>> THEN "no_candidates" ELSE "built"
    /\ fnArgs' = [strict_end |-> TRUE, breakpoints |-> FindBreakpoints(fnSegs)]
    /\ UNCHANGED <<fnSegs, fnPre, fnDelay, sysVars>>

\* lines 884-890
FnScoreHeuristic ==
    /\ fnStage = "built"
    /\ fnCands' = HeuristicScores(fnCands)
    /\ fnPre' = fnCands
    /\ fnStage' = "scored"
    /\ UNCHANGED <<fnSegs, fnArgs, fnDelay, sysVars>>

\* lines 852-882 with a list of validated result items: the LLM scorer, the
\* rescaling, the trim applier and the fusion
FnScoreLlm ==
    /\ fnStage = "built"
    /\ \E a1 \in LlmAnswers, a2 \in LlmAnswers :
       \E llm_candidates \in
            {WithCandidateIds(Take(SortDesc(fnCands, "heuristic_score"),
                                   LLM_MAX_CANDIDATES))} :
       \E results \in {ValidatedResults(RawItems(Len(llm_candidates), a1, a2))} :
       \E scored \in {ScoreWithResults(llm_candidates, results)} :
       \E scaled \in {ScaleHeuristicScores(scored.cands)} :
             IF scored.exc = ""
             THEN /\ fnPre' = scaled
                  /\ fnCands' = FuseScores(ApplyTrimSuggestions(scaled, fnSegs),
                                           ScaleDen(scaled))
                  /\ fnStage' = "scored"
             ELSE /\ fnPre' = fnCands
                  /\ fnCands' = HeuristicScores(fnCands)
                  /\ fnStage' = "scored"
    /\ UNCHANGED <<fnSegs, fnArgs, fnDelay, sysVars>>

\* lines 892-896
FnDedupe ==
    /\ fnStage = "scored"
    /\ fnCands' = DedupeAndTruncate(fnCands)
    /\ fnStage' = "final"
    /\ UNCHANGED <<fnSegs, fnPre, fnArgs, fnDelay, sysVars>>

FnNext == FnBuild \/ FnBuildChain \/ FnScoreHeuristic \/ FnScoreLlm \/ FnDedupe

SpecFn == FnInit /\ [][FnNext]_vars

----------------------------------------------------------------------------
(* The retry delay (tasks.py:137-144)                                      *)

RECURSIVE Pow2(_)
Pow2(n) == IF n = 0 THEN 1 ELSE 2 * Pow2(n - 1)

\* base * 2**retries without the cap of max_delay
CalculateRetryDelayUncapped(retries, settings, draw) ==
    LET base == Max2(1, settings.celery_retry_backoff_base)
        delay == base * Pow2(retries)
        jitter == Max2(0, settings.celery_retry_jitter)
    IN IF jitter # 0 THEN (delay * 100 + jitter * draw) \div 100 ELSE delay

\* _calculate_retry_delay(retries); random.uniform(0, jitter) is
\* jitter * draw / 100 for a draw of 0..100, and int() cuts the fraction of
\* the (non-negative) sum
CalculateRetryDelay(retries, settings, draw) ==
    LET base == Max2(1, settings.celery_retry_backoff_base)
        max_delay == Max2(base, settings.celery_retry_backoff_max)
        delay == Min2(max_delay, base * Pow2(retries))
        jitter == Max2(0, settings.celery_retry_jitter)
    IN IF jitter # 0 THEN (delay * 100 + jitter * draw) \div 100 ELSE delay

\* values of the three settings, the defaults of config.py among them
BackoffBases == {-1, 0, 1, 5}
BackoffMaxes == {0, 3, 300}
Jitters == {-2, 0, 3}
\* random.uniform(0, jitter) / jitter, in hundredths
JitterDraws == {0, 1, 34, 50, 99, 100}

RetryInit ==
    /\ fnStage = "settings"
    /\ fnArgs \in [celery_retry_backoff_base : BackoffBases,
                   celery_retry_backoff_max : BackoffMaxes,
                   celery_retry_jitter : Jitters,
                   retries : {0}, draw : {0}]
    /\ fnDelay = 0
    /\ fnSegs = <<>>
    /\ fnCands = <<>>
    /\ fnPre = <<>>
    /\ sermon = [deleted_at |-> 0, status |-> "transcribed", error_message |-> ""]
    /\ transcript = [segs |-> <<>>, deleted_at |-> 0]
    /\ clips = <<>>
    /\ task = [w \in Workers |-> IdleTask("none")]
    /\ clock = 2
    /\ faults = 0

\* _maybe_retry, line 161: delay = _calculate_retry_delay(retries)
FnRetryDelay ==
    /\ fnStage = "settings"
    /\ \E retries \in 0..MaxRetryCount, draw \in JitterDraws :
          /\ fnDelay' = CalculateRetryDelay(retries, fnArgs, draw)
          /\ fnArgs' = [fnArgs EXCEPT !.retries = retries, !.draw = draw]
    /\ fnStage' = "delay"
    /\ UNCHANGED <<fnSegs, fnCands, fnPre, sysVars>>

SpecRetry == RetryInit /\ [][FnRetryDelay]_vars

----------------------------------------------------------------------------
(* The task transcribe_sermon (tasks.py:673-779)                           *)

\* what model.transcribe yields for a recording of n utterances, times in ms
\* (int(segment.start * 1000), int(segment.end * 1000)), texts non-blank
WhisperSegments(n) ==
    [i \in 1..n |-> [start_ms |-> (i - 1) * 40000, end_ms |-> i * 40000 - 500]]

\* int(min(95, max(5, (segment.end / total_duration) * 90 + 5)))
ProgressOf(end_ms, total_ms) == Min2(95, Max2(5, (end_ms * 90) \div total_ms + 5))

TranscribeTask(n) ==
    [pc |-> "queued", retries |-> 0, seen |-> FALSE,
     segments |-> WhisperSegments(n),   \* the recording does not change
     batch |-> <<>>, count |-> 0, last_progress |-> 0,
     exc |-> "", msg |-> "", result |-> "", pending |-> {}]

\* lines 678-693: the entry checks, status processing, progress 5, commit;
\* then the download, ffmpeg and the model (695-722)
TranscribeStart(w) ==
    /\ task[w].pc = "queued"
    /\ IF sermon.deleted_at # 0
       THEN /\ task' = [task EXCEPT ![w] =
                          [@ EXCEPT !.pc = "done", !.result = "deleted", !.seen = TRUE]]
            /\ UNCHANGED sermon
       ELSE /\ sermon' = [sermon EXCEPT !.error_message = "", !.status = "processing",
                                        !.progress = 5]
            /\ task' = [task EXCEPT ![w] =
                          [@ EXCEPT !.pc = "segments", !.seen = TRUE, !.batch = <<>>,
                                    !.count = 0, !.last_progress = 5, !.exc = ""]]
    /\ UNCHANGED <<transcript, clips, clock, faults, fnVars>>

\* one round of the loop of lines 728-751: the segment joins the batch, a
\* full batch is saved and committed, the progress is committed when it grew
\* by 2 or more
TranscribeSegment(w) ==
    /\ task[w].pc = "segments"
    /\ task[w].count < Len(task[w].segments)
    /\ \E segment \in {task[w].segments[task[w].count + 1]} :
       \E batch \in {Append(task[w].batch,
                            [start_ms |-> segment.start_ms, end_ms |-> segment.end_ms,
                             deleted_at |-> 0])} :
       \E progress \in {ProgressOf(segment.end_ms,
                                   task[w].segments[Len(task[w].segments)].end_ms)} :
          /\ transcript' = IF Len(batch) >= batch_size
                           THEN [transcript EXCEPT !.segs = @ \o batch]
                           ELSE transcript
          /\ sermon' = IF progress - task[w].last_progress >= 2
                       THEN [sermon EXCEPT !.progress = progress]
                       ELSE sermon
          /\ task' = [task EXCEPT ![w] =
                        [@ EXCEPT !.count = @ + 1,
                                  !.batch = IF Len(batch) >= batch_size THEN <<>> ELSE batch,
                                  !.last_progress =
                                      IF progress - @ >= 2 THEN progress ELSE @]]
    /\ UNCHANGED <<clips, clock, faults, fnVars>>

\* lines 753-757: the rest of the batch is saved and committed
TranscribeFlush(w) ==
    /\ task[w].pc = "segments"
    /\ task[w].count = Len(task[w].segments)
    /\ transcript' = [transcript EXCEPT !.segs = @ \o task[w].batch]
    /\ task' = [task EXCEPT ![w] = [@ EXCEPT !.pc = "refresh", !.batch = <<>>]]
    /\ UNCHANGED <<sermon, clips, clock, faults, fnVars>>

\* lines 759-767: refresh, the deleted check, status transcribed, commit
TranscribeFinish(w) ==
    /\ task[w].pc = "refresh"
    /\ IF sermon.deleted_at # 0
       THEN /\ task' = [task EXCEPT ![w] = [@ EXCEPT !.pc = "done", !.result = "deleted"]]
            /\ UNCHANGED sermon
       ELSE /\ sermon' = [sermon EXCEPT !.status = "transcribed", !.progress = 100,
                                        !.error_message = ""]
            /\ task' = [task EXCEPT ![w] = [@ EXCEPT !.pc = "done", !.result = "segments"]]
    /\ UNCHANGED <<transcript, clips, clock, faults, fnVars>>

\* a statement or a download of task w fails with a retryable exception; what
\* the session had not committed is lost with the rollback of line 770
TranscribeError(w) ==
    /\ task[w].pc \in {"queued", "segments", "refresh"}
    /\ faults <= task[w].retries
    /\ faults' = faults + 1
    /\ task' = [task EXCEPT ![w] =
                  [@ EXCEPT !.pc = "failed", !.exc = "OperationalError",
                            !.msg = "(psycopg2.OperationalError) server closed the connection",
                            !.seen = (task[w].pc # "queued"),
                            !.batch = <<>>]]
    /\ UNCHANGED <<sermon, transcript, clips, clock, fnVars>>

\* lines 769-777: rollback, _maybe_retry, else the error is recorded
TranscribeHandleError(w) ==
    /\ task[w].pc = "failed"
    /\ IF WillRetry(task[w])
       THEN /\ task' = [task EXCEPT ![w] =
                          [@ EXCEPT !.pc = "queued", !.retries = @ + 1, !.seen = FALSE]]
            /\ UNCHANGED sermon
       ELSE /\ sermon' = IF task[w].seen
                         THEN [sermon EXCEPT !.status = "error",
                                             !.error_message = ErrorMessage(task[w].msg)]
                         ELSE sermon
            /\ task' = [task EXCEPT ![w] = [@ EXCEPT !.pc = "done", !.result = "error"]]
    /\ UNCHANGED <<transcript, clips, clock, faults, fnVars>>

\* DELETE /sermons/{id} (sermons.py:157-190) while segments are being stored:
\* the sermon and the segments committed so far are soft-deleted
DeleteSermonSegments ==
    /\ sermon.deleted_at = 0
    /\ sermon' = [sermon EXCEPT !.deleted_at = clock]
    /\ transcript' = [transcript EXCEPT !.segs =
                        [i \in 1..Len(@) |->
                            IF @[i].deleted_at = 0
                            THEN [@[i] EXCEPT !.deleted_at = clock] ELSE @[i]]]
    /\ clock' = clock + 1
    /\ UNCHANGED <<clips, task, faults, fnVars>>

TranscribeInit ==
    /\ sermon = [deleted_at |-> 0, status |-> "uploaded", error_message |-> "",
                 progress |-> 0]
    /\ transcript = [segs |-> <<>>, deleted_at |-> 0]
    /\ clips = <<>>
    /\ \E n \in 1..MaxUtterances : task = [w \in Workers |-> TranscribeTask(n)]
    /\ clock = 2
    /\ faults = 0
    /\ fnSegs = <<>>
    /\ fnCands = <<>>
    /\ fnPre = <<>>
    /\ fnStage = "off"
    /\ fnArgs = [strict_end |-> TRUE, breakpoints |-> <<>>]
    /\ fnDelay = 0

TranscribeNext ==
    \/ \E w \in Workers :
          \/ TranscribeStart(w)
          \/ TranscribeSegment(w)
          \/ TranscribeFlush(w)
          \/ TranscribeFinish(w)
          \/ TranscribeError(w)
          \/ TranscribeHandleError(w)
    \/ DeleteSermonSegments

SpecTranscribe == TranscribeInit /\ [][TranscribeNext]_vars

----------------------------------------------------------------------------
(* The tasks against the database                                          *)

Init ==
    /\ SysInit
    /\ fnSegs = <<>>
    /\ fnCands = <<>>
    /\ fnPre = <<>>
    /\ fnStage = "off"
    /\ fnArgs = [strict_end |-> TRUE, breakpoints |-> <<>>]
    /\ fnDelay = 0

Next ==
    \/ \E w \in Workers : TaskStep(w)
    \/ \E w \in Workers : ApiSuggest(w)
    \/ DeleteSermon

Spec == Init /\ [][Next]_vars

\* a step of task w other than the scoring of lines 813-902
RoundTrip(w) == task[w].pc # "compute" /\ TaskStep(w)

\* the API's operations on the rows, with no task at work
ApiNext ==
    \/ \E w \in Workers : ApiSuggest(w)
    \/ DeleteSermon
    \/ DeleteSuggestions
    \/ \E clip_id \in 1..Len(InitialClips) : DeleteClip(clip_id)

SpecApi == Init /\ [][ApiNext]_vars

\* the worker runs every task it was handed, also one queued again by
\* task.retry(), and the scoring is a computation that ends (at pc "compute"
\* a step is always possible, so this is weak fairness of that step);
\* nothing obliges the API to be called. The requests start on a transcribed
\* sermon whose segments all have embeddings, the first with use_llm true
LiveInit ==
    /\ Init
    /\ sermon.status = "transcribed"
    /\ EmbeddingsReady(transcript.segs)
    /\ task[1].use_llm = "true"

SpecLive ==
    /\ LiveInit
    /\ [][Next]_vars
    /\ \A w \in Workers : WF_vars(RoundTrip(w))
    /\ \A w \in Workers : []<>(task[w].pc # "compute")

----------------------------------------------------------------------------
(* Properties of the tasks against the database (Spec)                     *)

\* task w is the only writer on the sermon's clips: the other request has
\* not started and the sermon has not been deleted
Solo(w) ==
    /\ sermon.deleted_at = 0
    /\ task[w].pc # "idle" /\ Binds(task[w])
    /\ \A o \in Workers \ {w} : task[o].pc = "queued" /\ task[o].retries = 0

InsertedNow(w) == InsertedBy(clips, w, task[w].retries)

\* C1: in a run with no other writer on the sermon's clips, every committed
\* state has as non-deleted auto clips of the sermon either exactly the set
\* that existed before the run or exactly the set the run inserted, never a
\* mixture and never the empty set in between; after a successful return it
\* is the inserted set.
AtomicPersistence ==
    \A w \in Workers :
        (Solo(w) /\ task[w].pc # "queued") =>
            /\ LiveAutoIds(clips) # {}
            /\ \/ LiveAutoIds(clips) = task[w].before
               \/ LiveAutoIds(clips) = InsertedNow(w)
            /\ (task[w].pc = "done" /\ task[w].result = "suggestions") =>
                   /\ LiveAutoIds(clips) = InsertedNow(w)
                   /\ Cardinality(InsertedNow(w)) = task[w].created

\* a solo run returned successfully after replacing a non-empty prior set
AtomicPersistenceWitness ==
    \E w \in Workers :
        /\ Solo(w)
        /\ task[w].pc = "done" /\ task[w].result = "suggestions"
        /\ task[w].before # {}
        /\ InsertedNow(w) # {}
        /\ LiveAutoIds(clips) \cap task[w].before = {}

\* C2: when two runs for the same sermon execute concurrently and both
\* complete successfully, the non-deleted auto clips of the sermon are
\* exactly the clips inserted by one of the two runs.
ConcurrentRunsLeaveOneSet ==
    ( /\ sermon.deleted_at = 0
      /\ faults = 0
      /\ \A w \in Workers :
            task[w].pc = "done" /\ task[w].result = "suggestions" )
    => \E w \in Workers : LiveAutoIds(clips) = InsertedNow(w)

\* C3: if the sermon is soft-deleted after the entry check of a run and
\* before the run writes its results, the run inserts no clip row, leaves no
\* non-deleted auto clip of the sermon and returns the marker "deleted".
DeletedMidRunSkipsPersistence ==
    \A w \in Workers :
        ( /\ task[w].pc = "done"
          /\ task[w].deleted_mid_run
          /\ faults = 0
          /\ \A o \in Workers \ {w} : task[o].pc = "queued" )
        => /\ task[w].result = "deleted"
           /\ InsertedNow(w) = {}
           /\ LiveAutoIds(clips) = {}

\* the rows a run inserted carry the scores of its candidates
InsertedRows(w) ==
    {i \in 1..Len(clips) : clips[i].by = <<w, task[w].retries>>}

LlmCompleteIsFused ==
    \A w \in Workers :
        ( /\ task[w].llm = "complete"
          /\ task[w].pc = "done"
          /\ faults = 0
          /\ Solo(w) )
        => /\ task[w].result = "suggestions"
           /\ sermon.status = "suggested"
           /\ InsertedRows(w) # {}
           /\ \A i \in InsertedRows(w) :
                 /\ clips[i].use_llm
                 /\ 0 <= clips[i].score
                 /\ clips[i].score <= 100 * clips[i].score_den

\* C6: when the LLM response yields at least one but fewer validated results
\* than candidates were submitted, the run falls back wholesale to heuristic
\* scoring: no persisted clip has use_llm = true and the sermon ends with
\* status suggested.
LlmPartialFallsBack ==
    \A w \in Workers :
        ( /\ task[w].llm = "partial"
          /\ task[w].pc = "done"
          /\ faults = 0
          /\ Solo(w) )
        => /\ task[w].result = "suggestions"
           /\ sermon.status = "suggested"
           /\ InsertedRows(w) # {}
           /\ \A i \in InsertedRows(w) : ~clips[i].use_llm

\* C10: once the sermon is soft-deleted, no step writes the sermon's status
\* or error_message.
NoStatusWriteAfterDelete ==
    [][sermon.deleted_at # 0 =>
          /\ sermon'.status = sermon.status
          /\ sermon'.error_message = sermon.error_message]_vars

----------------------------------------------------------------------------
(* Properties of the pipeline (SpecFn)                                     *)

DurationOf(c) == c.end_ms - c.start_ms

\* C7: every candidate the builder emits, for any strict_end and any
\* breakpoint list, and every candidate that reaches persistence, trimmed or
\* not, has MIN_CLIP_MS <= end_ms - start_ms <= MAX_CLIP_MS.
DurationsInRange ==
    \A i \in 1..Len(fnCands) :
        /\ MIN_CLIP_MS <= DurationOf(fnCands[i])
        /\ DurationOf(fnCands[i]) <= MAX_CLIP_MS

\* a candidate whose bounds an applied trim rewrote reaches persistence
DurationsInRangeWitness ==
    /\ fnStage = "final"
    /\ \E i \in 1..Len(fnCands) :
          /\ fnCands[i].trim_applied
          /\ \A k \in 1..Len(fnPre) :
                (fnPre[k].candidate_id = fnCands[i].candidate_id) =>
                    DurationOf(fnPre[k]) > DurationOf(fnCands[i])

\* C8: every candidate with trim_applied = true after the trim applier had a
\* trim confidence >= 0.8 and at least one offset > 0; its start_ms is the
\* start of a segment i and its end_ms the end of a segment j with i <= j
\* inside the candidate's original [start_idx, end_idx]; and its duration is
\* within [MIN_CLIP_MS, MAX_CLIP_MS].
TrimAppliedWasConfident ==
    fnStage = "scored" =>
        \A k \in 1..Len(fnCands) :
            fnCands[k].trim_applied =>
                /\ fnPre[k].llm_trim_confidence.tag = "num"
                /\ fnPre[k].llm_trim_confidence.val >= LLM_TRIM_CONFIDENCE_MIN
                /\ \/ fnPre[k].llm_trim.start_offset > 0
                   \/ fnPre[k].llm_trim.end_offset > 0
                /\ \E i \in fnPre[k].start_idx..fnPre[k].end_idx :
                   \E j \in i..fnPre[k].end_idx :
                      /\ fnCands[k].start_ms = fnSegs[i + 1].start_ms
                      /\ fnCands[k].end_ms = fnSegs[j + 1].end_ms
                /\ MIN_CLIP_MS <= DurationOf(fnCands[k])
                /\ DurationOf(fnCands[k]) <= MAX_CLIP_MS

\* overlap_ms / min(duration_a, duration_b) <= 0.6, on integers
OverlapWithinLimit(a, b) ==
    LET overlap_ms == Max2(0, Min2(a.end_ms, b.end_ms) - Max2(a.start_ms, b.start_ms))
        shortest == Min2(DurationOf(a), DurationOf(b))
    IN shortest > 0 /\ 10 * overlap_ms <= 6 * shortest

\* C9: any two distinct clips persisted by one run have an overlap ratio of
\* at most 0.6 on their persisted, post-trim bounds.
PersistedOverlapBounded ==
    fnStage = "final" =>
        \A i \in 1..Len(fnCands) : \A j \in 1..Len(fnCands) :
            i # j => OverlapWithinLimit(fnCands[i], fnCands[j])

\* the deduper dropped a candidate that overlapped a better one by more than
\* 0.6, and two overlapping candidates are persisted
PersistedOverlapBoundedWitness ==
    /\ fnStage = "final"
    /\ Len(fnCands) >= 2
    /\ Len(fnCands) < Len(fnPre)
    /\ \E i \in 1..Len(fnCands) : \E j \in 1..Len(fnCands) :
          /\ i # j
          /\ Min2(fnCands[i].end_ms, fnCands[j].end_ms)
                > Max2(fnCands[i].start_ms, fnCands[j].start_ms)

----------------------------------------------------------------------------
(* Failed attempts and retries (Spec)                                      *)

\* C11: when an attempt ends with an exception, its clip writes are rolled
\* back: with no other writer, the non-deleted auto clips of the sermon are
\* the ones found when the attempt started and the attempt left no row.
FailedAttemptRolledBack ==
    \A w \in Workers :
        (task[w].pc = "failed" /\ Solo(w)) =>
            /\ LiveAutoIds(clips) = task[w].before
            /\ InsertedNow(w) = {}
            /\ \A i \in 1..Len(clips) :
                  clips[i].id \in task[w].before => clips[i].deleted_at = 0

\* C12: a run that finds no transcript segment, or for which no builder
\* configuration yields a candidate, is never retried: it inserts and
\* soft-deletes no clip, and when it ends the exception is re-raised and the
\* sermon has status error and the exception message, cut to 1000
\* characters, as error_message.
NoInputIsTerminal ==
    \A w \in Workers :
        task[w].exc = "ValueError" =>
            /\ task[w].pc \in {"failed", "done"}
            /\ ~WillRetry(task[w])
            /\ task[w].msg \in {"No transcript segments available",
                                "No candidate clips generated"}
            /\ InsertedNow(w) = {}
            /\ task[w].pending = {}
            /\ Solo(w) => LiveAutoIds(clips) = task[w].before
            /\ task[w].pc = "done" =>
                  /\ task[w].result = "error"
                  /\ (\A o \in Workers \ {w} :
                         task[o].pc = "queued" /\ task[o].retries = 0) =>
                        /\ sermon.status = "error"
                        /\ sermon.error_message = task[w].msg
                        /\ Len(sermon.error_message) <= ERROR_MESSAGE_MAX

\* a run for which no candidate could be built ended in the recorded error
NoInputIsTerminalWitness ==
    \E w \in Workers :
        /\ task[w].exc = "ValueError"
        /\ task[w].pc = "done"
        /\ task[w].retries = 0
        /\ Solo(w)
        /\ sermon.status = "error"
        /\ sermon.error_message = "No candidate clips generated"

\* the step of task w out of its except handler
HandlerStep(w) == task[w].pc = "failed" /\ task'[w] # task[w]

----------------------------------------------------------------------------
(* Requests enqueued by the API (Spec)                                     *)

\* C14: a request enqueued by POST /{sermon_id}/suggest, with the keywords
\* use_llm and llm_method, ends with the sermon's status suggested or error,
\* or with the deleted marker.
ApiRequestSettles ==
    \A w \in Workers :
        (task[w].pc = "done" /\ "llm_method" \in task[w].kwargs) =>
            \/ task[w].result = "deleted"
            \/ sermon.status \in {"suggested", "error"}

\* C15: no operation ever removes a clip row: every row of the table is
\* still a row of the table after any step.
ClipRowsAreKept ==
    [][\A i \in 1..Len(clips) :
          \E j \in 1..Len(clips') : clips'[j].id = clips[i].id]_vars

----------------------------------------------------------------------------
(* Scores and counts of the suggestions (SpecFn, Spec)                     *)

ScoreInRange(c) == 0 <= c.score /\ c.score <= 100 * c.score_den

\* C16 (as the code has it): a score fused from the rescaled heuristic score
\* and the LLM score lies in [0, 100]; a heuristic score used as the score
\* is not rescaled and need not.
FusedScoresInRange ==
    fnStage \in {"scored", "final"} =>
        \A i \in 1..Len(fnCands) : fnCands[i].use_llm => ScoreInRange(fnCands[i])

\* a suggestion with a fused score whose heuristic score was negative
FusedScoresInRangeWitness ==
    /\ fnStage = "final"
    /\ \E i \in 1..Len(fnCands) :
          /\ fnCands[i].use_llm
          /\ fnCands[i].heuristic_score < 0
          /\ fnCands[i].score > 0

\* C16 (as stated): the score of every suggestion to persist lies in
\* [0, 100], fused or heuristic.
ScoresInRange ==
    fnStage = "final" => \A i \in 1..Len(fnCands) : ScoreInRange(fnCands[i])

\* C17 (as the code has it): the suggestions a run persists are at least one
\* and at most MAX_SUGGESTIONS; fewer than MIN_SUGGESTIONS are persisted all
\* the same.
SuggestionCountBounded ==
    fnStage = "final" =>
        1 <= Len(fnCands) /\ Len(fnCands) <= MAX_SUGGESTIONS

\* more than MAX_SUGGESTIONS candidates survived the dedupers and
\* MAX_SUGGESTIONS are persisted
SuggestionCountBoundedWitness ==
    /\ fnStage = "final"
    /\ Len(fnCands) = MAX_SUGGESTIONS
    /\ Len(DedupeCandidates(SortDesc(fnPre, "heuristic_score"))) > MAX_SUGGESTIONS

\* C17 (as stated): a run that succeeds persisted at least MIN_SUGGESTIONS
\* and at most MAX_SUGGESTIONS suggestions.
SuggestionCountAtLeastMin ==
    fnStage = "final" =>
        MIN_SUGGESTIONS <= Len(fnCands) /\ Len(fnCands) <= MAX_SUGGESTIONS

----------------------------------------------------------------------------
(* Running twice (Spec)                                                    *)

RowTuple(r) == <<r.start_ms, r.end_ms, r.score, r.score_den, r.rationale>>

TuplesOf(w) == {RowTuple(clips[i]) : i \in InsertedRows(w)}

\* run b started on the suggestions run a had committed, both on the
\* heuristic path, both returned, nothing else happened
RanInSequence(a, b) ==
    /\ a # b
    /\ sermon.deleted_at = 0
    /\ faults = 0
    /\ \A w \in {a, b} :
          /\ task[w].pc = "done" /\ task[w].result = "suggestions"
          /\ ~UseLlmEffective(task[w].use_llm)
    /\ InsertedNow(a) # {}
    /\ InsertedNow(a) \subseteq task[b].before

----------------------------------------------------------------------------
(* Semantic distance of the suggestions (SpecFn)                           *)

----------------------------------------------------------------------------
(* The retry delay (SpecRetry)                                             *)

BackoffB == Max2(1, fnArgs.celery_retry_backoff_base)
BackoffM == Max2(BackoffB, fnArgs.celery_retry_backoff_max)
BackoffJ == Max2(0, fnArgs.celery_retry_jitter)

\* C20: _calculate_retry_delay(r) returns an integer d with
\* min(M, B * 2^r) <= d <= min(M, B * 2^r) + J; d never exceeds M + J, and
\* without jitter no smaller retry count gives a longer delay.
RetryDelayInBounds ==
    fnStage = "delay" =>
        /\ fnDelay \in Int
        /\ Min2(BackoffM, BackoffB * Pow2(fnArgs.retries)) <= fnDelay
        /\ fnDelay <= Min2(BackoffM, BackoffB * Pow2(fnArgs.retries)) + BackoffJ
        /\ fnDelay <= BackoffM + BackoffJ
        /\ BackoffJ = 0 =>
              \A q \in 0..fnArgs.retries :
                  CalculateRetryDelay(q, fnArgs, fnArgs.draw) <= fnDelay

\* the default settings, a retry count at which the cap applies, and a
\* jitter draw that adds to the delay
RetryDelayInBoundsWitness ==
    /\ fnStage = "delay"
    /\ fnArgs.celery_retry_backoff_base = 5
    /\ fnArgs.celery_retry_backoff_max = 300
    /\ fnArgs.celery_retry_jitter = 3
    /\ BackoffB * Pow2(fnArgs.retries) > BackoffM
    /\ fnDelay = BackoffM + 2

----------------------------------------------------------------------------
(* Transcription (SpecTranscribe)                                          *)

\* C21: after transcribe_sermon finished successfully, with no other
\* transcription of the sermon started, no two non-deleted segments of the
\* sermon have the same start_ms.
SegmentsStoredOnce ==
    \A w \in Workers :
        ( /\ task[w].pc = "done" /\ task[w].result = "segments"
          /\ \A o \in Workers \ {w} : task[o].pc = "queued" /\ task[o].retries = 0 )
        => \A i \in 1..Len(transcript.segs), j \in 1..Len(transcript.segs) :
              ( /\ i # j
                /\ transcript.segs[i].deleted_at = 0
                /\ transcript.segs[j].deleted_at = 0 )
              => transcript.segs[i].start_ms # transcript.segs[j].start_ms

----------------------------------------------------------------------------
(* The trim applier and the builder (SpecFn)                               *)

\* C22: an applied trim never widens a clip: a candidate with trim_applied
\* starts no earlier and ends no later than it did before the trim.
AppliedTrimNeverWidens ==
    (fnStage = "scored" /\ Len(fnPre) = Len(fnCands)) =>
        \A i \in 1..Len(fnCands) :
            fnCands[i].trim_applied =>
                /\ fnCands[i].start_ms >= fnPre[i].start_ms
                /\ fnCands[i].end_ms <= fnPre[i].end_ms

\* every gap between two adjacent segments exceeds LONG_GAP_MS
AllGapsLong(segs) ==
    \A i \in 2..Len(segs) : segs[i].start_ms - segs[i - 1].end_ms > LONG_GAP_MS

\* the candidates of suggest_clips, from the fallback chain to the final list
FromChain == fnStage \in {"built", "scored", "final"}

\* C23 (as the code has it): when every inter-segment gap exceeds 1500 ms and
\* a configuration that respects the breakpoints yields a candidate, every
\* candidate suggest_clips scores and keeps covers exactly one segment.
PausedCandidatesAreSingle ==
    ( /\ FromChain
      /\ AllGapsLong(fnSegs)
      /\ \E b \in {FindBreakpoints(fnSegs)} :
             BuildCandidates(fnSegs, FALSE, b) # <<>> )
    => \A i \in 1..Len(fnCands) : fnCands[i].start_idx = fnCands[i].end_idx

\* two passages apart by a long pause, each a suggestion of its own
PausedCandidatesAreSingleWitness ==
    /\ fnStage = "final"
    /\ Len(fnSegs) = 2
    /\ AllGapsLong(fnSegs)
    /\ Len(fnCands) = 2
    /\ \A i \in 1..2 : fnCands[i].start_idx = fnCands[i].end_idx

\* C23 (as the specification has it): when every inter-segment gap exceeds
\* 1500 ms, every candidate suggest_clips scores and keeps covers exactly one
\* segment.
PausedCandidatesAlwaysSingle ==
    (FromChain /\ AllGapsLong(fnSegs))
    => \A i \in 1..Len(fnCands) : fnCands[i].start_idx = fnCands[i].end_idx

\* the four builder configurations in the order (strict_end, breakpoints),
\* (non-strict, breakpoints), (strict_end, whole), (non-strict, whole)
Configuration(segs, k) ==
    CHOOSE r \in
      {BuildCandidates(segs, strict_end, b) :
       strict_end \in {k \in {1, 3}},
       b \in {IF k <= 2 THEN FindBreakpoints(segs) ELSE <<0, Len(segs)>>}} : TRUE

FirstNonEmpty(segs) ==
    LET ks == {k \in 1..4 : Configuration(segs, k) # <<>>}
    IN IF ks = {} THEN 0 ELSE CHOOSE k \in ks : \A o \in ks : k <= o

\* C24: suggest_clips uses the result of the first of the four builder
\* configurations that is non-empty, and fails with "No candidate clips
\* generated" exactly when all four are empty.
FirstNonEmptyConfigurationUsed ==
    fnStage \in {"built", "no_candidates"} =>
        \E k \in {FirstNonEmpty(fnSegs)} :
            /\ (fnStage = "no_candidates") <=> (k = 0)
            /\ k # 0 => fnCands = ApplySemanticScoring(fnSegs, Configuration(fnSegs, k))

\* the third configuration is the first to yield a candidate
FirstNonEmptyConfigurationUsedWitness ==
    /\ fnStage = "built"
    /\ FirstNonEmpty(fnSegs) = 3

----------------------------------------------------------------------------
(* The overlap deduper (SpecFn)                                            *)

\* the scored candidates as line 892 sorts them
SortedByScore == SortDesc(fnCands, "score")

Retained == DedupeCandidates(SortedByScore)

\* C25: of candidates sorted by score descending, _dedupe_candidates keeps
\* the first, and every candidate it drops overlaps, with ratio above 0.6, a
\* kept candidate whose score is not lower.
DroppedOverlapRetained ==
    (fnStage = "scored" /\ fnCands # <<>>) =>
        \E sorted \in {SortedByScore}, kept \in {Retained} :
            /\ kept # <<>>
            /\ kept[1] = sorted[1]
            /\ \A i \in 1..Len(sorted) :
                  (\A j \in 1..Len(kept) : kept[j] # sorted[i]) =>
                      \E j \in 1..Len(kept) :
                          /\ kept[j].score >= sorted[i].score
                          /\ OverlapRatioAbove(sorted[i].start_ms, sorted[i].end_ms,
                                               kept[j].start_ms, kept[j].end_ms, 6, 10)

\* a candidate is dropped and two that do not overlap that much are kept
DroppedOverlapRetainedWitness ==
    /\ fnStage = "scored"
    /\ Len(Retained) >= 2
    /\ Len(Retained) < Len(fnCands)

----------------------------------------------------------------------------
(* Rejected trims (SpecFn)                                                 *)

\* the trim suggested for candidate c is one of the rejected ones: the
\* confidence is missing or below 0.8, both offsets are 0, the shifted
\* bounds are empty, no segment is found when snapping, or the snapped
\* duration is outside [MIN_CLIP_MS, MAX_CLIP_MS]
RejectedTrim(c, segs) ==
    LET start_offset == Max2(0, c.llm_trim.start_offset)
        end_offset == Abs(c.llm_trim.end_offset)
        new_start_ms == c.start_ms + start_offset
        new_end_ms == c.end_ms - end_offset
        s == NewStartIdx(segs, c.start_idx, c.end_idx, new_start_ms)
        e == NewEndIdx(segs, s, c.end_idx, new_end_ms)
        snapped == segs[e + 1].end_ms - segs[s + 1].start_ms
    IN \/ c.llm_trim_confidence.tag = "none"
       \/ c.llm_trim_confidence.tag = "num"
            /\ c.llm_trim_confidence.val < LLM_TRIM_CONFIDENCE_MIN
       \/ start_offset = 0 /\ end_offset = 0
       \/ new_end_ms <= new_start_ms
       \/ s = -1
       \/ e = -1
       \/ snapped < MIN_CLIP_MS
       \/ snapped > MAX_CLIP_MS

\* C26: a candidate whose suggested trim is rejected keeps start_ms, end_ms,
\* start_idx and end_idx, and has trim_applied = FALSE when it is persisted.
RejectedTrimChangesNothing ==
    (fnStage = "scored" /\ Len(fnPre) = Len(fnCands)) =>
        \A i \in 1..Len(fnCands) :
            (fnCands[i].use_llm /\ fnPre[i].llm_trim.present
               /\ RejectedTrim(fnPre[i], fnSegs)) =>
                /\ fnCands[i].start_ms = fnPre[i].start_ms
                /\ fnCands[i].end_ms = fnPre[i].end_ms
                /\ fnCands[i].start_idx = fnPre[i].start_idx
                /\ fnCands[i].end_idx = fnPre[i].end_idx
                /\ ~fnCands[i].trim_applied

\* a confident trim with an offset is rejected for what it would leave
RejectedTrimChangesNothingWitness ==
    /\ fnStage = "scored"
    /\ Len(fnPre) = Len(fnCands)
    /\ \E i \in 1..Len(fnCands) :
          /\ fnCands[i].use_llm
          /\ fnPre[i].llm_trim.present
          /\ fnPre[i].llm_trim_confidence.tag = "num"
          /\ fnPre[i].llm_trim_confidence.val >= LLM_TRIM_CONFIDENCE_MIN
          /\ fnPre[i].llm_trim.end_offset # 0
          /\ fnPre[i].end_ms - Abs(fnPre[i].llm_trim.end_offset)
               > fnPre[i].start_ms + Max2(0, fnPre[i].llm_trim.start_offset)
          /\ RejectedTrim(fnPre[i], fnSegs)

----------------------------------------------------------------------------
(* Windows and breakpoints (SpecFn)                                        *)

\* the list the builder was called with; an empty list is read as none
\* given, which stands for [0, len(segments)] (line 463)
GivenBreakpoints ==
    IF fnArgs.breakpoints = <<>> THEN <<0, Len(fnSegs)>> ELSE fnArgs.breakpoints

\* C27: every candidate _build_candidates builds with a breakpoint list B
\* lies inside one window: B has consecutive entries b, b' with
\* b <= start_idx <= end_idx < b'.
CandidateInsideOneWindow ==
    fnStage = "built_direct" =>
        \A i \in 1..Len(fnCands) :
            \E k \in 1..(Len(GivenBreakpoints) - 1) :
                /\ GivenBreakpoints[k] <= fnCands[i].start_idx
                /\ fnCands[i].start_idx <= fnCands[i].end_idx
                /\ fnCands[i].end_idx < GivenBreakpoints[k + 1]

\* candidates on both sides of an inner breakpoint, though the segments on
\* its two sides would make a clip together
CandidateInsideOneWindowWitness ==
    /\ fnStage = "built_direct"
    /\ Len(fnArgs.breakpoints) = 3
    /\ \E i \in 1..Len(fnCands), j \in 1..Len(fnCands) :
          /\ fnCands[i].end_idx < fnArgs.breakpoints[2]
          /\ fnCands[j].start_idx >= fnArgs.breakpoints[2]
          /\ fnCands[j].end_ms - fnCands[i].start_ms <= MAX_CLIP_MS

\* between segments i and i + 1 of segs (indices from 1) lies a pause above
\* LONG_GAP_MS, or both carry embeddings of similarity below 0.5
BreaksAfter(segs, i) ==
    \/ segs[i + 1].start_ms - segs[i].end_ms > LONG_GAP_MS
    \/ /\ segs[i].emb # NoEmb
       /\ segs[i + 1].emb # NoEmb
       /\ CosineBelow(segs[i].emb, segs[i + 1].emb, 1, 2)

\* C28: _find_breakpoints(S) is strictly increasing, starts with 0 and ends
\* with len(S), and holds an index i with 0 < i < len(S) exactly when the
\* gap before segment i exceeds 1500 ms or both neighbours carry embeddings
\* of similarity below 0.5.
BreakpointsWellFormed ==
    \E b \in {FindBreakpoints(fnSegs)} :
        /\ b # <<>>
        /\ b[1] = 0
        /\ b[Len(b)] = Len(fnSegs)
        /\ \A k \in 1..(Len(b) - 1) : b[k] < b[k + 1]
        /\ \A i \in 1..(Len(fnSegs) - 1) :
              (\E k \in 1..Len(b) : b[k] = i) <=> BreaksAfter(fnSegs, i)

\* three segments with a breakpoint between two of them that no pause
\* makes, and none between the other two
BreakpointsWellFormedWitness ==
    /\ Len(fnSegs) = 3
    /\ Len(FindBreakpoints(fnSegs)) = 3
    /\ \E i \in 1..2 :
          /\ BreaksAfter(fnSegs, i)
          /\ fnSegs[i + 1].start_ms - fnSegs[i].end_ms <= LONG_GAP_MS
    /\ fnStage = "built"

----------------------------------------------------------------------------
(* Clips the task leaves alone (Spec)                                      *)

\* a clip the user made, a clip of another sermon, or a soft-deleted clip
Protected(row) ==
    \/ row.source = "manual"
    \/ row.sermon_id # SermonId
    \/ row.deleted_at # 0

\* C29: no step of suggest_clips, in a run that succeeds or in one that
\* fails, changes a field of a manual clip, of a clip of another sermon or of
\* a clip that is already soft-deleted. (The one step that is not the task's
\* and writes clips is the deletion of the sermon.)
ProtectedClipsUntouched ==
    [][sermon'.deleted_at = sermon.deleted_at =>
          \A i \in 1..Len(clips) :
              Protected(clips[i]) => (Len(clips') >= i /\ clips'[i] = clips[i])]_vars

\* a run replaced the earlier suggestion and returned; the user's clip, the
\* soft-deleted clip and the other sermon's clip are what they were
ProtectedClipsUntouchedWitness ==
    /\ \E w \in Workers : task[w].pc = "done" /\ task[w].result = "suggestions"
    /\ Len(clips) > Len(InitialClips)
    /\ clips[1].deleted_at # 0
    /\ \A i \in 2..4 : clips[i] = InitialClips[i]

----------------------------------------------------------------------------
(* The silence penalty (SpecFn)                                            *)

\* C30: a candidate built with the breakpoint list of _find_breakpoints has
\* gap_ms = 0; of the candidates of the fallback chain only those built
\* ignoring the breakpoints can have a positive gap_ms.
BreakpointCandidatesHaveNoGap ==
    /\ fnStage \in {"init", "built"} =>
       \A strict_end \in BOOLEAN :
          \E b \in {FindBreakpoints(fnSegs)} :
          \E built \in {BuildCandidates(fnSegs, strict_end, b)} :
              \A i \in 1..Len(built) : built[i].gap_ms = 0
    /\ (FromChain /\ \E i \in 1..Len(fnCands) : fnCands[i].gap_ms > 0) =>
          FirstNonEmpty(fnSegs) \in {3, 4}

\* candidates of several segments built inside the windows of the detector
BreakpointCandidatesHaveNoGapWitness ==
    /\ fnStage = "built"
    /\ FirstNonEmpty(fnSegs) = 1
    /\ \E i \in 1..Len(fnCands) : fnCands[i].end_idx > fnCands[i].start_idx

\* the fallback to the whole transcript builds a candidate with gap_ms > 0
FallbackCandidateHasGap ==
    /\ fnStage = "built"
    /\ FirstNonEmpty(fnSegs) \in {3, 4}
    /\ \E i \in 1..Len(fnCands) : fnCands[i].gap_ms > 0

====
